---- MODULE Spec2Model ----
\* State-machine model of github.com/jaeyeom/go-cmdexec.
\*
\* BasicExecutor.Execute (retry controller) and executeOnce (process runner)
\* are modelled together with their environment: the ambient context, the
\* per-attempt deadline context, the OS process started by cmd.Run, and the
\* inter-attempt delay timer.
EXTENDS Integers, Sequences, FiniteSets, TLC

\* ---------------------------------------------------------------------
\* Bounds of the model
\* ---------------------------------------------------------------------

\* Largest ToolConfig.MaxRetries that is enumerated.
MaxRetriesBound == 2

\* Largest exit status with which a process exits by itself.
MaxExitCode == 1

\* Number of times SignalHandler.Start creates a context.
MaxStarts == 2

\* Number of signals the operating system sends to the program.
MaxSignals == 2

\* Number of WithSignalHandling.Execute calls.
MaxCalls == 2

\* ---------------------------------------------------------------------
\* Program constants
\* ---------------------------------------------------------------------

\* (*exec.ExitError).ExitCode() of a process that was terminated by a signal.
KilledExitCode == -1

VARIABLES
    cfg,          \* the ToolConfig passed to Execute
    ctxErr,       \* ctx.Err() of the ambient context: "nil" until it is done
    execErr,      \* Err() of the context.WithTimeout child (used when Timeout > 0)
    pc,           \* position of the Execute call
    attempt,      \* loop variable `attempt` of Execute
    lastResult,   \* local `lastResult` of Execute
    lastErr,      \* local `lastErr` of Execute
    procState,    \* OS process of the current attempt: "none", "running", "exited", "killed"
    runErr,       \* cr.err, the value returned by cmd.Run()
    onceRes,      \* result returned by the latest executeOnce
    onceErr,      \* error returned by the latest executeOnce
    retRes,       \* result returned by Execute
    retErr,       \* error returned by Execute
    returnedBy,   \* which return statement of Execute was taken
    attempts,     \* number of executeOnce calls made so far
    spawned,      \* number of OS processes started so far
    delays,       \* number of RetryDelay waits entered so far
    results,      \* sequence of <<result, error>> pairs returned by executeOnce
    cancelPc,     \* pc at the moment the ambient context became done ("none" before)
    cancelProc,   \* procState at the moment the ambient context became done
    cancelAttempts, \* value of attempts at the moment the ambient context became done
    deadlinePc,   \* pc at the moment the timer of the current attempt fired ("none" before)
    configs,      \* ExecuteConcurrent: the configs slice, indexed from 0
    maxConcurrency, \* ExecuteConcurrent: the maxConcurrency argument
    semaphore,    \* ExecuteConcurrent: number of elements in the semaphore channel
    concResults,  \* ExecuteConcurrent: the results slice, indexed from 0
    wg,           \* ExecuteConcurrent: counter of the sync.WaitGroup
    loopIndex,    \* ExecuteConcurrent: next index of the `for i, cfg := range configs` loop
    mainPc,       \* ExecuteConcurrent: position of the calling goroutine
    taskPc,       \* ExecuteConcurrent: position of the goroutine of each index
    taskOut,      \* ExecuteConcurrent: locals `result, err` of the goroutine of each index
    execCalls,    \* ExecuteConcurrent: number of executor.Execute calls made for each index
    concRet,      \* ExecuteConcurrent: the pair it returned
    concCtxErr,   \* ExecuteConcurrent: ctx.Err() of the ctx argument
    cancelWaiters, \* ExecuteConcurrent: the indices whose goroutine was at the semaphore send when ctx was cancelled
    maxBytes,     \* executeCommand: cfg.MaxStdoutBytes / cfg.MaxStderrBytes, by stream
    lw,           \* executeCommand: the limitedWriter of each stream (fields n, truncated)
    buffers,      \* executeCommand: contents of r.stdout / r.stderr, by stream
    produced,     \* executeCommand: number of bytes the process has written to each stream
    writeRet,     \* executeCommand: what the latest Write call on the stream's writer returned
    capturePc,    \* executeCommand: "running" while cmd.Run() copies output, then "returned"
    captured,     \* executeCommand: Output / Stderr and the truncation flags of the ExecutionResult
    sinkSet,      \* by stream: whether cfg.StdoutWriter / cfg.StderrWriter is not nil
    sinks,        \* by stream: the bytes that the caller's writer has accepted
    copyErr,      \* by stream: the error that ended the copying of the stream, Nil while it goes on
    captureAttempt, \* number of the executeCommand call of the session
    producedLog,  \* history: per finished attempt, the bytes its process wrote by stream
    shCommand,    \* ShellCommandBuilder.Build: the command argument, a sequence of characters
    shArgs,       \* ShellCommandBuilder.Build: the args argument, a sequence of strings
    fullCommand,  \* ShellCommandBuilder.Build: the string handed to sh -c
    shWords,      \* ShellCommandBuilder.Build: what sh makes of fullCommand
    buildPc,      \* ShellCommandBuilder.Build: "call", "built" or "parsed"
    running,      \* SignalHandler.running
    signals,      \* SignalHandler.signals: the signals buffered in the channel (capacity 1)
    signalsClosed,\* whether the signals channel was closed
    notified,     \* whether signal.Notify relays signals to the channel
    ctxs,         \* contexts created by Start, in order: TRUE when cancelled
    cancel,       \* SignalHandler.cancel: index in ctxs of the context it cancels, 0 for nil
    listenerPc,   \* handleSignals goroutine: "none", "range", "switch", "exited"
    listenerSig,  \* signal the goroutine received last
    shWg,         \* SignalHandler.wg counter
    stopPc,       \* SignalHandler.Stop: "idle", "call" (called by WithSignalHandling.Stop), "wait"
    shPanic,      \* run-time panic that ended the program, or "none"
    startRet,     \* what the last Start returned: "none", "ctx", "SignalHandlerError"
    sigLog,       \* history: signals relayed so far, with the context generation and what became of them
    processes,    \* WithSignalHandling.processes: per execID the call whose cancel is stored, 0 for absent
    wePc,         \* per Execute call: "idle", "register", "executing", "cleanup", "done"
    weId,         \* per Execute call: its execID
    weParent,     \* per Execute call: the context passed, 0 for Background, g for the g-th Start context
    weCancelled,  \* per Execute call: whether its cancel function was called
    weStopSaw,    \* history: the calls that were executing when Stop last emptied the registry
    expectations, \* MockExecutor.expectations: records of Matcher, Times and used, in the order of Build
    callHistory,  \* MockExecutor.CallHistory: the commands of the Execute calls
    defaultSet,   \* whether DefaultResult or DefaultError is not nil
    mockAnswers,  \* history: per Execute call its command and what answered it
    assertRet     \* what AssertExpectationsMet returned since the last change: "none", "nil", "error"

\* State of BasicExecutor.Execute and its environment.
execVars ==
    <<cfg, ctxErr, execErr, pc, attempt, lastResult, lastErr, procState, runErr,
      onceRes, onceErr, retRes, retErr, returnedBy, attempts, spawned, delays,
      results, cancelPc, cancelProc, cancelAttempts, deadlinePc>>

\* State of ConcurrentExecutor.ExecuteConcurrent and its goroutines.
concVars ==
    <<configs, maxConcurrency, semaphore, concResults, wg, loopIndex, mainPc,
      taskPc, taskOut, execCalls, concRet, concCtxErr, cancelWaiters>>

\* State of executeCommand's output capture.
writerVars ==
    <<maxBytes, lw, buffers, produced, writeRet, capturePc, captured,
      sinkSet, sinks, copyErr, captureAttempt, producedLog>>

\* State of ShellCommandBuilder.Build.
quoteVars ==
    <<shCommand, shArgs, fullCommand, shWords, buildPc>>

\* State of SignalHandler and WithSignalHandling.
sigVars ==
    <<running, signals, signalsClosed, notified, ctxs, cancel, listenerPc,
      listenerSig, shWg, stopPc, shPanic, startRet, sigLog, processes,
      wePc, weId, weParent, weCancelled, weStopSaw>>

\* State of MockExecutor.
mockVars ==
    <<expectations, callHistory, defaultSet, mockAnswers, assertRet>>

\* State outside BasicExecutor.Execute, which its steps leave alone.
nonExecVars ==
    <<concVars, writerVars, quoteVars, sigVars, mockVars>>

\* State outside ExecuteConcurrent, which its steps leave alone.
nonConcVars ==
    <<execVars, writerVars, quoteVars, sigVars, mockVars>>

\* State outside executeCommand's output capture, which its steps leave alone.
nonWriterVars ==
    <<execVars, concVars, quoteVars, sigVars, mockVars>>

\* State outside ShellCommandBuilder.Build, which its steps leave alone.
nonQuoteVars ==
    <<execVars, concVars, writerVars, sigVars, mockVars>>

\* State outside SignalHandler and WithSignalHandling, which its steps leave alone.
nonSigVars ==
    <<execVars, concVars, writerVars, quoteVars, mockVars>>

\* State outside MockExecutor, which its steps leave alone.
nonMockVars ==
    <<execVars, concVars, writerVars, quoteVars, sigVars>>

vars ==
    <<execVars, concVars, writerVars, quoteVars, sigVars, mockVars>>

\* ---------------------------------------------------------------------
\* Values
\* ---------------------------------------------------------------------

\* The nil pointer / nil error.
Nil ==
    [type |-> "nil"]

\* Exit statuses of a process that exits by itself.
ExitCodes ==
    0..MaxExitCode

\* ctx.Err() values of a context that is done.
ContextErrors ==
    {"Canceled", "DeadlineExceeded"}

\* The error value context.Canceled / context.DeadlineExceeded.
CtxError(name) ==
    [type |-> name]

\* fmt.Errorf(msg + ": %w", inner)
WrapError(msg, inner) ==
    [type |-> "wrapError", msg |-> msg, inner |-> inner]

\* fmt.Errorf("command exited with code %d", code)
ExitCodeError(code) ==
    [type |-> "errorString", msg |-> "command exited with code", code |-> code]

\* fmt.Errorf("%s", text)
TextError(text) ==
    [type |-> "errorString", msg |-> text, code |-> 0]

\* &ValidationError{Field: field}
ValidationError(field) ==
    [type |-> "ValidationError", Field |-> field]

\* &CommandNotAllowedError{Command: command, Reason: reason}
CommandNotAllowedError(command, reason) ==
    [type |-> "CommandNotAllowedError", Command |-> command, Reason |-> reason]

\* &TimeoutError{Timeout: timeout}
TimeoutError(timeout) ==
    [type |-> "TimeoutError", Timeout |-> timeout]

\* &ExecutableNotFoundError{Command: command}
ExecutableNotFoundError(command) ==
    [type |-> "ExecutableNotFoundError", Command |-> command]

\* &RetryExhaustedError{Attempts: n, LastError: last}
RetryExhaustedError(n, last) ==
    [type |-> "RetryExhaustedError", Attempts |-> n, LastError |-> last]

\* (*RetryExhaustedError).Unwrap and the Unwrap of a %w wrapper; Nil otherwise.
Unwrap(e) ==
    IF e.type = "RetryExhaustedError" THEN e.LastError
    ELSE IF e.type \in {"wrapError", "SystemError"} THEN e.inner
    ELSE Nil

\* errors.Is(e, target) over the (at most three deep) chains Execute builds.
ErrorsIs(e, target) ==
    \/ e = target
    \/ Unwrap(e) = target
    \/ Unwrap(Unwrap(e)) = target

\* ---------------------------------------------------------------------
\* ToolConfig and its validation (types.go)
\* ---------------------------------------------------------------------

\* The configurations that are enumerated; -1 stands for any negative value.
ToolConfigs ==
    [Command : {"", "tool"},
     MaxRetries : (-1)..MaxRetriesBound,
     RetryDelay : {-1, 0, 1},
     Timeout : {-1, 0, 1},
     MaxStdoutBytes : {-1, 0},
     MaxStderrBytes : {-1, 0},
     Stdin : {"nil", "reader"},
     CommandValidator : {"nil", "allow", "deny"}]

\* A CommandValidator as returned by AllowCommands: the error it returns.
AllowCommands(validator, command) ==
    IF validator = "deny" THEN TextError("not in allowlist") ELSE Nil

\* Variant of Validate: the test of MaxStderrBytes is missing.
ValidateNoStderrCheck(tc) ==
    IF tc.Command = "" THEN ValidationError("Command")
    ELSE IF tc.MaxRetries < 0 THEN ValidationError("MaxRetries")
    ELSE IF tc.RetryDelay < 0 THEN ValidationError("RetryDelay")
    ELSE IF tc.Timeout < 0 THEN ValidationError("Timeout")
    ELSE IF tc.MaxStdoutBytes < 0 THEN ValidationError("MaxStdoutBytes")
    ELSE IF /\ tc.CommandValidator # "nil"
            /\ AllowCommands(tc.CommandValidator, tc.Command) # Nil
         THEN CommandNotAllowedError(tc.Command,
                  AllowCommands(tc.CommandValidator, tc.Command).msg)
    ELSE Nil

\* Variant of Validate: the CommandValidator is not consulted.
ValidateNoValidator(tc) ==
    IF tc.Command = "" THEN ValidationError("Command")
    ELSE IF tc.MaxRetries < 0 THEN ValidationError("MaxRetries")
    ELSE IF tc.RetryDelay < 0 THEN ValidationError("RetryDelay")
    ELSE IF tc.Timeout < 0 THEN ValidationError("Timeout")
    ELSE IF tc.MaxStdoutBytes < 0 THEN ValidationError("MaxStdoutBytes")
    ELSE IF tc.MaxStderrBytes < 0 THEN ValidationError("MaxStderrBytes")
    ELSE Nil

\* (*ToolConfig).Validate
Validate(tc) ==
    IF tc.Command = "" THEN ValidationError("Command")
    ELSE IF tc.MaxRetries < 0 THEN ValidationError("MaxRetries")
    ELSE IF tc.RetryDelay < 0 THEN ValidationError("RetryDelay")
    ELSE IF tc.Timeout < 0 THEN ValidationError("Timeout")
    ELSE IF tc.MaxStdoutBytes < 0 THEN ValidationError("MaxStdoutBytes")
    ELSE IF tc.MaxStderrBytes < 0 THEN ValidationError("MaxStderrBytes")
    ELSE IF /\ tc.CommandValidator # "nil"
            /\ AllowCommands(tc.CommandValidator, tc.Command) # Nil
         THEN CommandNotAllowedError(tc.Command,
                  AllowCommands(tc.CommandValidator, tc.Command).msg)
    ELSE Nil

\* ---------------------------------------------------------------------
\* executeOnce: the process runner
\* ---------------------------------------------------------------------

\* Err() of the context handed to the command: the WithTimeout child when
\* Timeout > 0, the ambient context itself otherwise (createExecutionContext).
ExecCtxErr ==
    IF cfg.Timeout > 0 THEN execErr ELSE ctxErr

\* Variant of handleTimeout: the test of the configured Timeout is missing.
handleTimeoutNoGuard(ctxE, err, tc) ==
    err # Nil /\ ctxE = "DeadlineExceeded"

\* handleTimeout
handleTimeout(ctxE, err, tc) ==
    err # Nil /\ ctxE = "DeadlineExceeded" /\ tc.Timeout > 0

\* processExecutionError: the pair (exit code, error)
processExecutionError(err, command) ==
    IF err = Nil THEN [exitCode |-> 0, err |-> Nil]
    ELSE IF err.type = "ErrNotFound"
         THEN [exitCode |-> 0, err |-> ExecutableNotFoundError(command)]
    ELSE IF err.type \in ContextErrors THEN [exitCode |-> 0, err |-> err]
    ELSE IF err.type = "ExitError" THEN [exitCode |-> err.code, err |-> Nil]
    ELSE [exitCode |-> 0,
          err |-> [type |-> "SystemError", msg |-> "command", inner |-> err]]

\* buildExecutionResult (the fields the claims are about)
buildExecutionResult(exitCode) ==
    [type |-> "ExecutionResult", ExitCode |-> exitCode, Error |-> ""]

\* Variant of executeOnceResult: a timeout also returns a result (marked as
\* timed out) next to the TimeoutError.
executeOnceResultTimedOut(ctxE, err, tc) ==
    IF handleTimeout(ctxE, err, tc)
    THEN <<buildExecutionResult(KilledExitCode), TimeoutError(tc.Timeout)>>
    ELSE LET pe == processExecutionError(err, tc.Command)
         IN  IF pe.err # Nil THEN <<Nil, pe.err>>
             ELSE <<buildExecutionResult(pe.exitCode), Nil>>

\* The part of executeOnce after cmd.Run() returned: <<result, error>>.
executeOnceResult(ctxE, err, tc) ==
    IF handleTimeout(ctxE, err, tc) THEN <<Nil, TimeoutError(tc.Timeout)>>
    ELSE LET pe == processExecutionError(err, tc.Command)
         IN  IF pe.err # Nil THEN <<Nil, pe.err>>
             ELSE <<buildExecutionResult(pe.exitCode), Nil>>

\* ---------------------------------------------------------------------
\* Execute: the retry controller (decisions of the loop body)
\* ---------------------------------------------------------------------

\* Variant of fastPath: no fast path, MaxRetries = 0 runs the retry loop.
fastPathNever(tc) ==
    FALSE

\* `if cfg.MaxRetries == 0`: the fast path that bypasses the retry loop.
fastPath(tc) ==
    tc.MaxRetries = 0

\* Variant of maxAttempts: off by one.
maxAttemptsOffByOne(tc) ==
    2 + tc.MaxRetries

\* `maxAttempts := 1 + cfg.MaxRetries`
maxAttempts(tc) ==
    1 + tc.MaxRetries

\* Variant of isSuccess: the exit-code test is inverted.
isSuccessInverted(result, err) ==
    err = Nil /\ result.ExitCode # 0

\* `if err == nil && result.ExitCode == 0`
isSuccess(result, err) ==
    err = Nil /\ result.ExitCode = 0

\* Variant of isNotFound: tests for the raw exec.ErrNotFound, which
\* executeOnce has already converted.
isNotFoundRaw(err) ==
    err.type = "ErrNotFound"

\* Variant of isNotFound that also stops the retries on a TimeoutError or a
\* system error.
isNotFoundOrHardFailure(err) ==
    err # Nil /\ err.type \in {"ExecutableNotFoundError", "TimeoutError", "SystemError"}

\* `if _, isNotFound := err.(*ExecutableNotFoundError); isNotFound`
isNotFound(err) ==
    err.type = "ExecutableNotFoundError"

\* Variant of ctxDone: the context is not consulted after an attempt.
ctxDoneIgnored(ctxE) ==
    FALSE

\* `if ctx.Err() != nil` after an attempt
ctxDone(ctxE) ==
    ctxE # "nil"

\* Variant of ctxAbortError: the attempt's error is reported as a retry
\* exhaustion.
ctxAbortErrorExhausted(err, ctxE) ==
    IF err # Nil THEN RetryExhaustedError(1, err)
    ELSE WrapError("context done", CtxError(ctxE))

\* The error returned when the context is found done after an attempt.
ctxAbortError(err, ctxE) ==
    IF err # Nil THEN err ELSE WrapError("context done", CtxError(ctxE))

\* Variant of waitsDelay that also waits after the last attempt.
waitsDelayAfterLast(att, tc) ==
    tc.RetryDelay > 0

\* `if attempt < maxAttempts { if cfg.RetryDelay > 0 { select ... } }`:
\* whether the loop body waits before the next iteration.
waitsDelay(att, tc) ==
    att < maxAttempts(tc) /\ tc.RetryDelay > 0

\* Variant of selectDelay: time.Sleep(cfg.RetryDelay), blind to the context.
selectDelaySleep(ctxE) ==
    "time.After"

\* The select on time.After(cfg.RetryDelay) and ctx.Done(): the case taken by
\* the parked goroutine. It is woken by whichever channel becomes ready first;
\* the context is not done when the wait starts.
selectDelay(ctxE) ==
    IF ctxE # "nil" THEN "ctx.Done" ELSE "time.After"

\* The error returned from the ctx.Done() case of the select.
delayAbortError(ctxE) ==
    WrapError("context done during retry delay", CtxError(ctxE))

\* Variant of exhaustedError: an error kept from an earlier attempt is not
\* replaced by the description of a final attempt that produced an outcome.
exhaustedErrorSticky(tc, lastR, lastE) ==
    RetryExhaustedError(maxAttempts(tc),
        IF lastE # Nil THEN lastE ELSE TimeoutError(tc.Timeout))

\* Variant of exhaustedError: Attempts counts the retries, not the attempts.
exhaustedErrorRetries(tc, lastR, lastE) ==
    IF lastE # Nil THEN RetryExhaustedError(tc.MaxRetries, lastE)
    ELSE RetryExhaustedError(tc.MaxRetries,
             IF lastR.Error # "" THEN TextError(lastR.Error)
             ELSE ExitCodeError(lastR.ExitCode))

\* The RetryExhaustedError built after the loop.
exhaustedError(tc, lastR, lastE) ==
    IF lastE # Nil THEN RetryExhaustedError(maxAttempts(tc), lastE)
    ELSE RetryExhaustedError(maxAttempts(tc),
             IF lastR.Error # "" THEN TextError(lastR.Error)
             ELSE ExitCodeError(lastR.ExitCode))

\* ---------------------------------------------------------------------
\* Initial state
\* ---------------------------------------------------------------------

\* BasicExecutor.Execute is not being called: the state of a program that
\* only calls ExecuteConcurrent on some other Executor.
ExecIdle ==
    /\ cfg = [Command |-> "tool", MaxRetries |-> 0, RetryDelay |-> 0,
              Timeout |-> 0, MaxStdoutBytes |-> 0, MaxStderrBytes |-> 0,
              Stdin |-> "nil", CommandValidator |-> "nil"]
    /\ ctxErr = "nil"
    /\ execErr = "nil"
    /\ pc = "done"
    /\ attempt = 0
    /\ lastResult = Nil
    /\ lastErr = Nil
    /\ procState = "none"
    /\ runErr = Nil
    /\ onceRes = Nil
    /\ onceErr = Nil
    /\ retRes = Nil
    /\ retErr = Nil
    /\ returnedBy = "none"
    /\ attempts = 0
    /\ spawned = 0
    /\ delays = 0
    /\ results = <<>>
    /\ cancelPc = "none"
    /\ cancelProc = "none"
    /\ cancelAttempts = 0
    /\ deadlinePc = "none"

\* ExecuteConcurrent is not being called: the state of a program that only
\* calls BasicExecutor.Execute.
ConcurrentIdle ==
    /\ configs = <<>>
    /\ maxConcurrency = 0
    /\ semaphore = 0
    /\ concResults = <<>>
    /\ wg = 0
    /\ loopIndex = 0
    /\ mainPc = "idle"
    /\ taskPc = <<>>
    /\ taskOut = <<>>
    /\ execCalls = <<>>
    /\ concRet = Nil
    /\ concCtxErr = "nil"
    /\ cancelWaiters = {}

\* No command is capturing output.
WriterIdle ==
    /\ maxBytes = <<>>
    /\ lw = <<>>
    /\ buffers = <<>>
    /\ produced = <<>>
    /\ writeRet = Nil
    /\ capturePc = "idle"
    /\ captured = Nil
    /\ sinkSet = <<>>
    /\ sinks = <<>>
    /\ copyErr = <<>>
    /\ captureAttempt = 0
    /\ producedLog = <<>>

\* No shell command is being built.
QuoteIdle ==
    /\ shCommand = <<>>
    /\ shArgs = <<>>
    /\ fullCommand = <<>>
    /\ shWords = Nil
    /\ buildPc = "idle"

\* The WithSignalHandling.Execute calls of a run.
Calls == 1..MaxCalls

\* The values of buildCommandString(cfg.Command, cfg.Args) that the calls
\* use: two distinct command lines, so that two calls can also share one.
ExecIDs == {"sleep 2", "echo hello"}

\* NewSignalHandler and NewWithSignalHandling: nothing started, no call made.
SigIdle ==
    /\ running = FALSE
    /\ signals = <<>>
    /\ signalsClosed = FALSE
    /\ notified = FALSE
    /\ ctxs = <<>>
    /\ cancel = 0
    /\ listenerPc = "none"
    /\ listenerSig = "none"
    /\ shWg = 0
    /\ stopPc = "idle"
    /\ shPanic = "none"
    /\ startRet = "none"
    /\ sigLog = <<>>
    /\ processes = [id \in ExecIDs |-> 0]
    /\ wePc = [c \in Calls |-> "idle"]
    /\ weId = [c \in Calls |-> "none"]
    /\ weParent = [c \in Calls |-> 0]
    /\ weCancelled = [c \in Calls |-> FALSE]
    /\ weStopSaw = {}

\* NewMockExecutor: no expectation, no call, no default behaviour.
MockIdle ==
    /\ expectations = <<>>
    /\ callHistory = <<>>
    /\ defaultSet = FALSE
    /\ mockAnswers = <<>>
    /\ assertRet = "none"

\* Every component but the named one is idle: a program that exercises one
\* component leaves the state of the others at rest.
AllIdleBut(component) ==
    /\ IF component = "exec" THEN TRUE ELSE ExecIdle
    /\ IF component = "conc" THEN TRUE ELSE ConcurrentIdle
    /\ IF component = "writer" THEN TRUE ELSE WriterIdle
    /\ IF component = "quote" THEN TRUE ELSE QuoteIdle
    /\ IF component = "sig" THEN TRUE ELSE SigIdle
    /\ IF component = "mock" THEN TRUE ELSE MockIdle

Init ==
    /\ cfg \in ToolConfigs
    /\ ctxErr = "nil"
    /\ execErr = "nil"
    /\ pc = "call"
    /\ attempt = 0
    /\ lastResult = Nil
    /\ lastErr = Nil
    /\ procState = "none"
    /\ runErr = Nil
    /\ onceRes = Nil
    /\ onceErr = Nil
    /\ retRes = Nil
    /\ retErr = Nil
    /\ returnedBy = "none"
    /\ attempts = 0
    /\ spawned = 0
    /\ delays = 0
    /\ results = <<>>
    /\ cancelPc = "none"
    /\ cancelProc = "none"
    /\ cancelAttempts = 0
    /\ deadlinePc = "none"
    /\ AllIdleBut("exec")

\* ---------------------------------------------------------------------
\* Environment: the ambient context and the per-attempt deadline
\* ---------------------------------------------------------------------

\* The ambient context becomes done: cancel() is called (Canceled) or its own
\* deadline passes (DeadlineExceeded). A live WithTimeout child is done with
\* the same error.
CancelCtx ==
    /\ pc # "done"
    /\ ctxErr = "nil"
    /\ \E e \in ContextErrors :
        /\ ctxErr' = e
        /\ execErr' = IF pc \in {"running", "ran"} /\ cfg.Timeout > 0 /\ execErr = "nil"
                      THEN e ELSE execErr
    /\ cancelPc' = pc
    /\ cancelProc' = procState
    /\ cancelAttempts' = attempts
    /\ UNCHANGED <<cfg, pc, attempt, lastResult, lastErr, procState, runErr,
                   onceRes, onceErr, retRes, retErr, returnedBy, attempts,
                   spawned, delays, results, deadlinePc>>
    /\ UNCHANGED nonExecVars

\* The timer of context.WithTimeout(ctx, cfg.Timeout) fires during an attempt.
DeadlineFires ==
    /\ pc \in {"running", "ran"}
    /\ cfg.Timeout > 0
    /\ execErr = "nil"
    /\ execErr' = "DeadlineExceeded"
    /\ deadlinePc' = pc
    /\ UNCHANGED <<cfg, ctxErr, pc, attempt, lastResult, lastErr, procState,
                   runErr, onceRes, onceErr, retRes, retErr, returnedBy,
                   attempts, spawned, delays, results, cancelPc, cancelProc,
                   cancelAttempts>>
    /\ UNCHANGED nonExecVars

\* ---------------------------------------------------------------------
\* Execute and executeOnce, step by step
\* ---------------------------------------------------------------------

\* Execute is entered: cfg.Validate() and, on failure, `return nil, err`.
ExecuteEnter ==
    /\ pc = "call"
    /\ IF Validate(cfg) # Nil
       THEN /\ pc' = "done"
            /\ retRes' = Nil
            /\ retErr' = Validate(cfg)
            /\ returnedBy' = "validate"
            /\ attempt' = attempt
       ELSE /\ pc' = "attempt"
            /\ attempt' = 1
            /\ UNCHANGED <<retRes, retErr, returnedBy>>
    /\ UNCHANGED <<cfg, ctxErr, execErr, lastResult, lastErr, procState, runErr,
                   onceRes, onceErr, attempts, spawned, delays, results,
                   cancelPc, cancelProc, cancelAttempts, deadlinePc>>
    /\ UNCHANGED nonExecVars

\* executeOnce is called: createExecutionContext, createCommand, setupCommand
\* and the Start half of cmd.Run(). Start fails without spawning a process
\* when the executable cannot be resolved, when the command's context is
\* already done, or on a system error; otherwise one process is running.
ExecuteOnceStart ==
    /\ pc = "attempt"
    /\ attempts' = attempts + 1
    /\ execErr' = IF cfg.Timeout > 0 THEN ctxErr ELSE "nil"
    /\ deadlinePc' = "none"
    /\ \E start \in {"ok", "notfound", "ioerr"} :
        IF start = "notfound"
        THEN /\ runErr' = [type |-> "ErrNotFound"]
             /\ pc' = "ran"
             /\ UNCHANGED <<procState, spawned>>
        ELSE IF ctxErr # "nil"
        THEN /\ runErr' = CtxError(ctxErr)
             /\ pc' = "ran"
             /\ UNCHANGED <<procState, spawned>>
        ELSE IF start = "ioerr"
        THEN /\ runErr' = [type |-> "IOError"]
             /\ pc' = "ran"
             /\ UNCHANGED <<procState, spawned>>
        ELSE /\ runErr' = Nil
             /\ pc' = "running"
             /\ procState' = "running"
             /\ spawned' = spawned + 1
    /\ UNCHANGED <<cfg, ctxErr, attempt, lastResult, lastErr, onceRes, onceErr,
                   retRes, retErr, returnedBy, delays, results, cancelPc,
                   cancelProc, cancelAttempts>>
    /\ UNCHANGED nonExecVars

\* The process exits by itself with status code and cmd.Run() returns: nil for
\* status 0 (or the error of an output copy that failed), *exec.ExitError
\* otherwise.
ProcessExits ==
    /\ pc = "running"
    /\ \E code \in ExitCodes, copyFailed \in BOOLEAN :
        runErr' = IF code # 0 THEN [type |-> "ExitError", code |-> code]
                  ELSE IF copyFailed THEN [type |-> "IOError"]
                  ELSE Nil
    /\ procState' = "exited"
    /\ pc' = "ran"
    /\ UNCHANGED <<cfg, ctxErr, execErr, attempt, lastResult, lastErr, onceRes,
                   onceErr, retRes, retErr, returnedBy, attempts, spawned,
                   delays, results, cancelPc, cancelProc, cancelAttempts, deadlinePc>>
    /\ UNCHANGED nonExecVars

\* The command's context is done while the process runs: exec kills the
\* process and cmd.Run() returns the *exec.ExitError of the signalled process.
ProcessKilled ==
    /\ pc = "running"
    /\ ExecCtxErr # "nil"
    /\ runErr' = [type |-> "ExitError", code |-> KilledExitCode]
    /\ procState' = "killed"
    /\ pc' = "ran"
    /\ UNCHANGED <<cfg, ctxErr, execErr, attempt, lastResult, lastErr, onceRes,
                   onceErr, retRes, retErr, returnedBy, attempts, spawned,
                   delays, results, cancelPc, cancelProc, cancelAttempts, deadlinePc>>
    /\ UNCHANGED nonExecVars

\* The command's context is done just as the process exits with status 0:
\* cmd.Run() reports the context's error instead of nil.
ProcessExitsCtxDone ==
    /\ pc = "running"
    /\ ExecCtxErr # "nil"
    /\ runErr' = CtxError(ExecCtxErr)
    /\ procState' = "exited"
    /\ pc' = "ran"
    /\ UNCHANGED <<cfg, ctxErr, execErr, attempt, lastResult, lastErr, onceRes,
                   onceErr, retRes, retErr, returnedBy, attempts, spawned,
                   delays, results, cancelPc, cancelProc, cancelAttempts, deadlinePc>>
    /\ UNCHANGED nonExecVars

\* executeOnce returns: handleTimeout, processExecutionError,
\* buildExecutionResult, and the deferred cancel() of the WithTimeout child.
ExecuteOnceReturn ==
    /\ pc = "ran"
    /\ LET r == executeOnceResult(ExecCtxErr, runErr, cfg)
       IN  /\ onceRes' = r[1]
           /\ onceErr' = r[2]
           /\ results' = Append(results, r)
    /\ execErr' = IF cfg.Timeout > 0 /\ execErr = "nil" THEN "Canceled" ELSE execErr
    /\ pc' = "returned"
    /\ UNCHANGED <<cfg, ctxErr, attempt, lastResult, lastErr, procState, runErr,
                   retRes, retErr, returnedBy, attempts, spawned, delays,
                   cancelPc, cancelProc, cancelAttempts, deadlinePc>>
    /\ UNCHANGED nonExecVars

\* Execute returns res, err from the return statement named by.
Return(res, err, by) ==
    /\ pc' = "done"
    /\ retRes' = res
    /\ retErr' = err
    /\ returnedBy' = by

\* Execute receives the result of executeOnce: the fast path, or one iteration
\* of the retry loop up to the select, and the code after the loop when the
\* iteration was the last one.
ExecuteLoop ==
    /\ pc = "returned"
    /\ IF fastPath(cfg)
       THEN /\ Return(onceRes, onceErr, "fast")
            /\ UNCHANGED <<attempt, lastResult, lastErr, delays>>
       ELSE IF isSuccess(onceRes, onceErr)
       THEN /\ Return(onceRes, Nil, "success")
            /\ UNCHANGED <<attempt, lastResult, lastErr, delays>>
       ELSE IF isNotFound(onceErr)
       THEN /\ Return(Nil, onceErr, "notfound")
            /\ UNCHANGED <<attempt, lastResult, lastErr, delays>>
       ELSE IF ctxDone(ctxErr)
       THEN /\ Return(Nil, ctxAbortError(onceErr, ctxErr), "ctxAfterAttempt")
            /\ UNCHANGED <<attempt, lastResult, lastErr, delays>>
       ELSE /\ lastResult' = onceRes
            /\ lastErr' = onceErr
            /\ IF waitsDelay(attempt, cfg)
               THEN /\ pc' = "delay"
                    /\ delays' = delays + 1
                    /\ UNCHANGED <<attempt, retRes, retErr, returnedBy>>
               ELSE IF attempt + 1 <= maxAttempts(cfg)
               THEN /\ pc' = "attempt"
                    /\ attempt' = attempt + 1
                    /\ UNCHANGED <<delays, retRes, retErr, returnedBy>>
               ELSE /\ Return(Nil, exhaustedError(cfg, lastResult', lastErr'), "exhausted")
                    /\ attempt' = attempt + 1
                    /\ UNCHANGED delays
    /\ UNCHANGED <<cfg, ctxErr, execErr, procState, runErr, onceRes, onceErr,
                   attempts, spawned, results, cancelPc, cancelProc,
                   cancelAttempts, deadlinePc>>
    /\ UNCHANGED nonExecVars

\* The select of the retry delay returns: the timer case continues with the
\* next iteration, the ctx.Done() case returns from Execute.
DelayDone ==
    /\ pc = "delay"
    /\ IF selectDelay(ctxErr) = "ctx.Done"
       THEN /\ Return(Nil, delayAbortError(ctxErr), "ctxDuringDelay")
            /\ UNCHANGED attempt
       ELSE /\ pc' = "attempt"
            /\ attempt' = attempt + 1
            /\ UNCHANGED <<retRes, retErr, returnedBy>>
    /\ UNCHANGED <<cfg, ctxErr, execErr, lastResult, lastErr, procState, runErr,
                   onceRes, onceErr, attempts, spawned, delays, results,
                   cancelPc, cancelProc, cancelAttempts, deadlinePc>>
    /\ UNCHANGED nonExecVars

Next ==
    \/ CancelCtx
    \/ DeadlineFires
    \/ ExecuteEnter
    \/ ExecuteOnceStart
    \/ ProcessExits
    \/ ProcessKilled
    \/ ProcessExitsCtxDone
    \/ ExecuteOnceReturn
    \/ ExecuteLoop
    \/ DelayDone

Spec ==
    Init /\ [][Next]_vars

\* ---------------------------------------------------------------------
\* ConcurrentExecutor.ExecuteConcurrent: the bounded fan-out
\* ---------------------------------------------------------------------

\* Largest number of configs passed to ExecuteConcurrent.
MaxConfigs == 3

\* Largest maxConcurrency argument that is enumerated.
MaxConcurrencyBound == 3

\* The ToolConfig values of the configs slice, told apart by their Command.
ConfigNames ==
    {"a", "b"}

\* The indices of the configs slice.
Indices ==
    DOMAIN configs

\* The zero value of ConcurrentResult, as make([]ConcurrentResult, n) fills it.
ZeroConcurrentResult ==
    [Index |-> 0, Config |-> "", Result |-> Nil, Error |-> Nil]

\* What the wrapped executor.Execute may return for a config: an outcome with
\* a nil error, or a nil result with an error.
ExecuteOutcomes(config) ==
    {<<[type |-> "ExecutionResult", Command |-> config, ExitCode |-> 0], Nil>>,
     <<Nil, TextError("execute failed")>>}

\* Variant of semCapacity: the channel holds one element more than asked for.
semCapacityOffByOne(k) ==
    IF k <= 0 THEN 1 ELSE k + 1

\* `if maxConcurrency <= 0 { maxConcurrency = 1 }` and the capacity of
\* `make(chan struct{}, maxConcurrency)`.
semCapacity(k) ==
    IF k <= 0 THEN 1 ELSE k

\* Variant of newConcurrentResult: the Index field is left at its zero value.
newConcurrentResultNoIndex(index, config, out) ==
    [Index |-> 0, Config |-> config, Result |-> out[1], Error |-> out[2]]

\* `ConcurrentResult{Index: index, Config: config, Result: result, Error: err}`
newConcurrentResult(index, config, out) ==
    [Index |-> index, Config |-> config, Result |-> out[1], Error |-> out[2]]

\* Variant of concurrentError: the call reports the error of the first failed
\* task.
concurrentErrorFirst(res) ==
    IF \E i \in DOMAIN res : res[i].Error # Nil
    THEN res[CHOOSE i \in DOMAIN res :
                 /\ res[i].Error # Nil
                 /\ \A j \in DOMAIN res : res[j].Error # Nil => i <= j].Error
    ELSE Nil

\* The error of `return results, nil`.
concurrentError(res) ==
    Nil

\* ExecuteConcurrent is about to be called with n configs and some
\* maxConcurrency, negative and zero included.
InitConcurrent ==
    /\ AllIdleBut("conc")
    /\ \E n \in 0..MaxConfigs :
        /\ configs \in [0..(n - 1) -> ConfigNames]
        /\ taskPc = [i \in 0..(n - 1) |-> "idle"]
        /\ taskOut = [i \in 0..(n - 1) |-> <<Nil, Nil>>]
        /\ execCalls = [i \in 0..(n - 1) |-> 0]
    /\ maxConcurrency \in (-1)..MaxConcurrencyBound
    /\ semaphore = 0
    /\ concResults = <<>>
    /\ wg = 0
    /\ loopIndex = 0
    /\ mainPc = "call"
    /\ concRet = Nil
    /\ concCtxErr = "nil"
    /\ cancelWaiters = {}

\* ExecuteConcurrent is entered: the empty input returns at once; otherwise the
\* semaphore channel and the results slice are made.
ExecuteConcurrentEnter ==
    /\ mainPc = "call"
    /\ IF Indices = {}
       THEN /\ mainPc' = "done"
            /\ concRet' = [type |-> "return", results |-> <<>>, err |-> Nil]
            /\ UNCHANGED concResults
       ELSE /\ mainPc' = "loop"
            /\ concResults' = [i \in Indices |-> ZeroConcurrentResult]
            /\ UNCHANGED concRet
    /\ UNCHANGED <<configs, concCtxErr, cancelWaiters, maxConcurrency, semaphore, wg, loopIndex, taskPc,
                   taskOut, execCalls>>
    /\ UNCHANGED nonConcVars

\* One iteration of `for i, cfg := range configs`: wg.Add(1) and the go
\* statement, whose goroutine starts at the semaphore send.
GoTask ==
    /\ mainPc = "loop"
    /\ wg' = wg + 1
    /\ taskPc' = [taskPc EXCEPT ![loopIndex] = "acquire"]
    /\ loopIndex' = loopIndex + 1
    /\ mainPc' = IF loopIndex + 1 \in Indices THEN "loop" ELSE "wait"
    /\ UNCHANGED <<configs, concCtxErr, cancelWaiters, maxConcurrency, semaphore, concResults, taskOut,
                   execCalls, concRet>>
    /\ UNCHANGED nonConcVars

\* `semaphore <- struct{}{}` succeeds, which needs room in the channel, and
\* the goroutine calls ce.executor.Execute(ctx, config).
TaskAcquire(i) ==
    /\ taskPc[i] = "acquire"
    /\ semaphore < semCapacity(maxConcurrency)
    /\ semaphore' = semaphore + 1
    /\ execCalls' = [execCalls EXCEPT ![i] = @ + 1]
    /\ taskPc' = [taskPc EXCEPT ![i] = "execute"]
    /\ UNCHANGED <<configs, concCtxErr, cancelWaiters, maxConcurrency, concResults, wg, loopIndex, mainPc,
                   taskOut, concRet>>
    /\ UNCHANGED nonConcVars

\* ce.executor.Execute returns `result, err` to the goroutine.
TaskExecuteReturns(i) ==
    /\ taskPc[i] = "execute"
    /\ \E out \in ExecuteOutcomes(configs[i]) :
        taskOut' = [taskOut EXCEPT ![i] = out]
    /\ taskPc' = [taskPc EXCEPT ![i] = "store"]
    /\ UNCHANGED <<configs, concCtxErr, cancelWaiters, maxConcurrency, semaphore, concResults, wg,
                   loopIndex, mainPc, execCalls, concRet>>
    /\ UNCHANGED nonConcVars

\* Variant of TaskStore: every goroutine stores into the first entry.
TaskStoreFirstEntry(i) ==
    /\ taskPc[i] = "store"
    /\ concResults' = [concResults EXCEPT
                          ![0] = newConcurrentResult(i, configs[i], taskOut[i])]
    /\ taskPc' = [taskPc EXCEPT ![i] = "release"]
    /\ UNCHANGED <<configs, concCtxErr, cancelWaiters, maxConcurrency, semaphore, wg, loopIndex, mainPc,
                   taskOut, execCalls, concRet>>
    /\ UNCHANGED nonConcVars

\* `results[index] = ConcurrentResult{...}`
TaskStore(i) ==
    /\ taskPc[i] = "store"
    /\ concResults' = [concResults EXCEPT
                          ![i] = newConcurrentResult(i, configs[i], taskOut[i])]
    /\ taskPc' = [taskPc EXCEPT ![i] = "release"]
    /\ UNCHANGED <<configs, concCtxErr, cancelWaiters, maxConcurrency, semaphore, wg, loopIndex, mainPc,
                   taskOut, execCalls, concRet>>
    /\ UNCHANGED nonConcVars

\* Variant of TaskRelease: the slot is given back only by a goroutine whose
\* Execute returned no error.
TaskReleaseOnSuccess(i) ==
    /\ taskPc[i] = "release"
    /\ semaphore' = IF taskOut[i][2] = Nil THEN semaphore - 1 ELSE semaphore
    /\ taskPc' = [taskPc EXCEPT ![i] = "wgDone"]
    /\ UNCHANGED <<configs, concCtxErr, cancelWaiters, maxConcurrency, concResults, wg, loopIndex, mainPc,
                   taskOut, execCalls, concRet>>
    /\ UNCHANGED nonConcVars

\* The deferred `<-semaphore`, which runs before the deferred wg.Done().
TaskRelease(i) ==
    /\ taskPc[i] = "release"
    /\ semaphore' = semaphore - 1
    /\ taskPc' = [taskPc EXCEPT ![i] = "wgDone"]
    /\ UNCHANGED <<configs, concCtxErr, cancelWaiters, maxConcurrency, concResults, wg, loopIndex, mainPc,
                   taskOut, execCalls, concRet>>
    /\ UNCHANGED nonConcVars

\* The deferred wg.Done(): the goroutine is finished.
TaskDone(i) ==
    /\ taskPc[i] = "wgDone"
    /\ wg' = wg - 1
    /\ taskPc' = [taskPc EXCEPT ![i] = "finished"]
    /\ UNCHANGED <<configs, concCtxErr, cancelWaiters, maxConcurrency, semaphore, concResults, loopIndex,
                   mainPc, taskOut, execCalls, concRet>>
    /\ UNCHANGED nonConcVars

\* wg.Wait() returns once the counter is zero, and `return results, nil`.
WaitReturn ==
    /\ mainPc = "wait"
    /\ wg = 0
    /\ mainPc' = "done"
    /\ concRet' = [type |-> "return", results |-> concResults,
                   err |-> concurrentError(concResults)]
    /\ UNCHANGED <<configs, concCtxErr, cancelWaiters, maxConcurrency, semaphore, concResults, wg,
                   loopIndex, taskPc, taskOut, execCalls>>
    /\ UNCHANGED nonConcVars

\* The ctx argument of ExecuteConcurrent is cancelled, before or during the
\* call.
CancelConcurrent ==
    /\ mainPc \in {"call", "loop", "wait"}
    /\ concCtxErr = "nil"
    /\ concCtxErr' = "Canceled"
    /\ cancelWaiters' = {i \in Indices : taskPc[i] = "acquire"}
    /\ UNCHANGED <<configs, maxConcurrency, semaphore, concResults, wg,
                   loopIndex, mainPc, taskPc, taskOut, execCalls, concRet>>
    /\ UNCHANGED nonConcVars

NextConcurrent ==
    \/ ExecuteConcurrentEnter
    \/ GoTask
    \/ \E i \in Indices : TaskAcquire(i)
    \/ \E i \in Indices : TaskExecuteReturns(i)
    \/ \E i \in Indices : TaskStore(i)
    \/ \E i \in Indices : TaskRelease(i)
    \/ \E i \in Indices : TaskDone(i)
    \/ WaitReturn

SpecConcurrent ==
    InitConcurrent /\ [][NextConcurrent]_vars

\* Largest number of configs for which termination is checked.
MaxLiveConfigs == 2

\* Any step of the goroutine started for index i.
TaskStep(i) ==
    \/ TaskAcquire(i)
    \/ TaskExecuteReturns(i)
    \/ TaskStore(i)
    \/ TaskRelease(i)
    \/ TaskDone(i)

\* The next step of the goroutine that called ExecuteConcurrent.
MainStep ==
    \/ ExecuteConcurrentEnter
    \/ GoTask
    \/ WaitReturn

\* The Go scheduler runs every goroutine that can take a step: the caller's
\* goroutine and each task's, whose semaphore send can proceed whenever the
\* channel has room; and every call of the wrapped executor's Execute returns.
FairConcurrent ==
    /\ WF_vars(MainStep)
    /\ \A i \in 0..(MaxConfigs - 1) : WF_vars(i \in Indices /\ TaskStep(i))

\* ExecuteConcurrent is called with at most MaxLiveConfigs configs.
InitConcurrentLive ==
    /\ InitConcurrent
    /\ \A i \in Indices : i < MaxLiveConfigs

SpecConcurrentLive ==
    InitConcurrentLive /\ [][NextConcurrent]_vars /\ FairConcurrent

\* ExecuteConcurrent under a context that the caller may cancel.
NextConcurrentCtx ==
    \/ CancelConcurrent
    \/ ExecuteConcurrentEnter
    \/ GoTask
    \/ \E i \in Indices : TaskAcquire(i)
    \/ \E i \in Indices : TaskExecuteReturns(i)
    \/ \E i \in Indices : TaskStore(i)
    \/ \E i \in Indices : TaskRelease(i)
    \/ \E i \in Indices : TaskDone(i)
    \/ WaitReturn

SpecConcurrentCtx ==
    InitConcurrent /\ [][NextConcurrentCtx]_vars

\* ---------------------------------------------------------------------
\* executeCommand: capture of stdout and stderr through limitedWriter
\* ---------------------------------------------------------------------

\* Largest MaxStdoutBytes / MaxStderrBytes that is enumerated.
MaxCapBytes == 3

\* Largest number of bytes handed to one Write call.
MaxChunk == 3

\* Largest number of bytes a process writes to one stream.
MaxProduced == 5

\* The two captured streams of a command.
Streams ==
    {"stdout", "stderr"}

\* The len bytes that the process writes to a stream after its first from
\* bytes; the k-th byte of a stream is the pair of the stream and k.
Chunk(stream, from, len) ==
    [k \in 1..len |-> <<stream, from + k>>]

\* &limitedWriter{w: &r.stdout, n: cap}
NewLimitedWriter(cap) ==
    [type |-> "limitedWriter", n |-> cap, truncated |-> FALSE]

\* Variant of lwWrite: a chunk that exactly fills the remaining room is
\* treated as exceeding it.
lwWriteGreaterEqual(w, buf, p) ==
    IF w.n <= 0
    THEN [lw |-> [w EXCEPT !.truncated = TRUE], buf |-> buf,
          ret |-> [n |-> Len(p), err |-> Nil]]
    ELSE IF Len(p) >= w.n
    THEN [lw |-> [w EXCEPT !.truncated = TRUE, !.n = 0],
          buf |-> buf \o SubSeq(p, 1, w.n),
          ret |-> [n |-> Len(p), err |-> Nil]]
    ELSE [lw |-> [w EXCEPT !.n = @ - Len(p)], buf |-> buf \o p,
          ret |-> [n |-> Len(p), err |-> Nil]]

\* Variant of lwWrite: a chunk that does not fit reports only the bytes that
\* were kept, as a short write.
lwWriteShort(w, buf, p) ==
    IF w.n <= 0
    THEN [lw |-> [w EXCEPT !.truncated = TRUE], buf |-> buf,
          ret |-> [n |-> 0, err |-> [type |-> "ErrShortWrite"]]]
    ELSE IF Len(p) > w.n
    THEN [lw |-> [w EXCEPT !.truncated = TRUE, !.n = 0],
          buf |-> buf \o SubSeq(p, 1, w.n),
          ret |-> [n |-> w.n, err |-> [type |-> "ErrShortWrite"]]]
    ELSE [lw |-> [w EXCEPT !.n = @ - Len(p)], buf |-> buf \o p,
          ret |-> [n |-> Len(p), err |-> Nil]]

\* (*limitedWriter).Write(p) on a writer w whose sink is the bytes.Buffer buf:
\* the new writer, the new buffer and the returned (n, err). The buffer's own
\* Write accepts every byte and returns no error.
lwWrite(w, buf, p) ==
    IF w.n <= 0
    THEN [lw |-> [w EXCEPT !.truncated = TRUE], buf |-> buf,
          ret |-> [n |-> Len(p), err |-> Nil]]
    ELSE IF Len(p) > w.n
    THEN [lw |-> [w EXCEPT !.truncated = TRUE, !.n = 0],
          buf |-> buf \o SubSeq(p, 1, w.n),
          ret |-> [n |-> Len(p), err |-> Nil]]
    ELSE [lw |-> [w EXCEPT !.n = @ - Len(p)], buf |-> buf \o p,
          ret |-> [n |-> Len(p), err |-> Nil]]

\* Write(p) on the writer that executeCommand installs for a stream: the
\* limitedWriter when the stream is capped, the bytes.Buffer itself otherwise.
streamWrite(w, buf, p) ==
    IF w # Nil THEN lwWrite(w, buf, p)
    ELSE [lw |-> w, buf |-> buf \o p, ret |-> [n |-> Len(p), err |-> Nil]]

\* `if stdoutLW != nil { r.stdoutTrunc = stdoutLW.truncated }`
truncFlag(w) ==
    IF w # Nil THEN w.truncated ELSE FALSE

\* executeCommand has installed the writers of a command with some caps and
\* no StdoutWriter or StderrWriter, and cmd.Run() has started the process.
InitWriter ==
    /\ AllIdleBut("writer")
    /\ sinkSet = [s \in Streams |-> FALSE]
    /\ sinks = [s \in Streams |-> <<>>]
    /\ copyErr = [s \in Streams |-> Nil]
    /\ captureAttempt = 1
    /\ producedLog = <<>>
    /\ maxBytes \in [Streams -> 0..MaxCapBytes]
    /\ lw = [s \in Streams |-> IF maxBytes[s] > 0
                               THEN NewLimitedWriter(maxBytes[s]) ELSE Nil]
    /\ buffers = [s \in Streams |-> <<>>]
    /\ produced = [s \in Streams |-> 0]
    /\ writeRet = Nil
    /\ capturePc = "running"
    /\ captured = Nil

\* The copying goroutine of exec hands the next len bytes of the process's
\* output on stream s to the stream's writer, for a stream without a
\* caller's writer; io.Copy never writes an empty chunk.
CopyOutput(s, len) ==
    /\ capturePc = "running"
    /\ ~sinkSet[s]
    /\ produced[s] + len <= MaxProduced
    /\ LET r == streamWrite(lw[s], buffers[s], Chunk(s, produced[s], len))
       IN  /\ lw' = [lw EXCEPT ![s] = r.lw]
           /\ buffers' = [buffers EXCEPT ![s] = r.buf]
           /\ writeRet' = [type |-> "writeRet", stream |-> s, len |-> len,
                           n |-> r.ret.n, err |-> r.ret.err]
    /\ produced' = [produced EXCEPT ![s] = @ + len]
    /\ UNCHANGED <<maxBytes, capturePc, captured>>
    /\ UNCHANGED <<sinkSet, sinks, copyErr, captureAttempt, producedLog>>
    /\ UNCHANGED nonWriterVars

\* cmd.Run() returns; executeCommand reads the truncation flags and
\* buildExecutionResult copies the buffers into the ExecutionResult.
RunReturns ==
    /\ capturePc = "running"
    /\ capturePc' = "returned"
    /\ captured' = [type |-> "ExecutionResult",
                    Output |-> buffers["stdout"],
                    Stderr |-> buffers["stderr"],
                    StdoutTruncated |-> truncFlag(lw["stdout"]),
                    StderrTruncated |-> truncFlag(lw["stderr"])]
    /\ UNCHANGED <<maxBytes, lw, buffers, produced, writeRet>>
    /\ UNCHANGED <<sinkSet, sinks, copyErr, captureAttempt, producedLog>>
    /\ UNCHANGED nonWriterVars

NextWriter ==
    \/ \E s \in Streams, len \in 1..MaxChunk : CopyOutput(s, len)
    \/ RunReturns

SpecWriter ==
    InitWriter /\ [][NextWriter]_vars

\* Number of attempts of a session whose output is captured.
MaxCaptureAttempts == 2

\* Variant of multiWrite: the caller's writer sits behind the cap and is
\* handed only the bytes that the buffer kept.
multiWriteCapped(w, buf, sink, p, accepted) ==
    LET r == streamWrite(w, buf, p)
        kept == SubSeq(r.buf, Len(buf) + 1, Len(r.buf))
    IN  [lw |-> r.lw, buf |-> r.buf,
         sink |-> sink \o SubSeq(kept, 1, IF accepted < Len(kept)
                                           THEN accepted ELSE Len(kept)),
         ret |-> IF accepted = Len(p) THEN [n |-> Len(p), err |-> Nil]
                 ELSE [n |-> accepted, err |-> [type |-> "SinkError"]]]

\* io.MultiWriter(stdoutW, cfg.StdoutWriter).Write(p) when the caller's
\* writer takes `accepted` bytes of p: the first writer, the stream's own,
\* is written first; the caller's writer is written next, and taking fewer
\* than len(p) bytes is an error (its own, or io.ErrShortWrite).
multiWrite(w, buf, sink, p, accepted) ==
    LET r == streamWrite(w, buf, p)
    IN  IF r.ret.err # Nil \/ r.ret.n # Len(p)
        THEN [lw |-> r.lw, buf |-> r.buf, sink |-> sink, ret |-> r.ret]
        ELSE [lw |-> r.lw, buf |-> r.buf,
              sink |-> sink \o SubSeq(p, 1, accepted),
              ret |-> IF accepted = Len(p) THEN [n |-> Len(p), err |-> Nil]
                      ELSE [n |-> accepted, err |-> [type |-> "SinkError"]]]

\* The first attempt of a session: executeCommand has installed the writers
\* of a command with some caps, and with a caller's writer on any of the
\* streams, and cmd.Run() has started the process.
InitCapture ==
    /\ AllIdleBut("writer")
    /\ maxBytes \in [Streams -> 0..MaxCapBytes]
    /\ sinkSet \in [Streams -> BOOLEAN]
    /\ lw = [s \in Streams |-> IF maxBytes[s] > 0
                               THEN NewLimitedWriter(maxBytes[s]) ELSE Nil]
    /\ buffers = [s \in Streams |-> <<>>]
    /\ produced = [s \in Streams |-> 0]
    /\ writeRet = Nil
    /\ capturePc = "running"
    /\ captured = Nil
    /\ sinks = [s \in Streams |-> <<>>]
    /\ copyErr = [s \in Streams |-> Nil]
    /\ captureAttempt = 1
    /\ producedLog = <<>>

\* Number of bytes that the processes of a session write in all.
MaxSessionBytes == 3

RECURSIVE loggedBytes(_, _)
\* The bytes written by the processes of the attempts i.. of the log.
loggedBytes(log, i) ==
    IF i > Len(log) THEN 0
    ELSE log[i].produced["stdout"] + log[i].produced["stderr"]
         + loggedBytes(log, i + 1)

\* The bytes written so far by the processes of the session.
sessionBytes ==
    loggedBytes(producedLog, 1) + produced["stdout"] + produced["stderr"]

\* CopyOutput in a session of several attempts.
SessionCopyOutput(s, len) ==
    /\ sessionBytes + len <= MaxSessionBytes
    /\ CopyOutput(s, len)

\* The copying goroutine hands the next len bytes of stream s to the
\* MultiWriter of a stream with a caller's writer, which takes `accepted` of
\* them; an error ends the copying of the stream.
TeeOutput(s, len, accepted) ==
    /\ capturePc = "running"
    /\ sinkSet[s]
    /\ copyErr[s] = Nil
    /\ sessionBytes + len <= MaxSessionBytes
    /\ LET r == multiWrite(lw[s], buffers[s], sinks[s],
                           Chunk(s, produced[s], len), accepted)
       IN  /\ lw' = [lw EXCEPT ![s] = r.lw]
           /\ buffers' = [buffers EXCEPT ![s] = r.buf]
           /\ sinks' = [sinks EXCEPT ![s] = r.sink]
           /\ copyErr' = [copyErr EXCEPT ![s] = r.ret.err]
           /\ writeRet' = [type |-> "writeRet", stream |-> s, len |-> len,
                           n |-> r.ret.n, err |-> r.ret.err]
    /\ produced' = [produced EXCEPT ![s] = @ + len]
    /\ UNCHANGED <<maxBytes, capturePc, captured, sinkSet, captureAttempt, producedLog>>
    /\ UNCHANGED nonWriterVars

\* Variant of NextAttempt: the buffers and the limitedWriters of the previous
\* attempt are used again.
NextAttemptSharedBuffers(nth) ==
    /\ capturePc = "returned"
    /\ nth = captureAttempt + 1
    /\ captureAttempt' = nth
    /\ producedLog' = Append(producedLog,
                             [produced |-> produced, copyErr |-> copyErr])
    /\ produced' = [s \in Streams |-> 0]
    /\ copyErr' = [s \in Streams |-> Nil]
    /\ writeRet' = Nil
    /\ capturePc' = "running"
    /\ UNCHANGED <<maxBytes, captured, sinkSet, sinks, lw, buffers>>
    /\ UNCHANGED nonWriterVars

\* The retry loop calls executeOnce for the attempt of the given number:
\* executeCommand declares a new executeCommandResult with empty buffers,
\* makes new limitedWriters and wraps them with the same caller's writers.
NextAttempt(nth) ==
    /\ capturePc = "returned"
    /\ nth = captureAttempt + 1
    /\ captureAttempt' = nth
    /\ producedLog' = Append(producedLog,
                             [produced |-> produced, copyErr |-> copyErr])
    /\ lw' = [s \in Streams |-> IF maxBytes[s] > 0
                                THEN NewLimitedWriter(maxBytes[s]) ELSE Nil]
    /\ buffers' = [s \in Streams |-> <<>>]
    /\ produced' = [s \in Streams |-> 0]
    /\ copyErr' = [s \in Streams |-> Nil]
    /\ writeRet' = Nil
    /\ capturePc' = "running"
    /\ UNCHANGED <<maxBytes, captured, sinkSet, sinks>>
    /\ UNCHANGED nonWriterVars

\* The output capture of a retry session with or without caller's writers.
NextCapture ==
    \/ \E s \in Streams, len \in 1..MaxChunk : SessionCopyOutput(s, len)
    \/ \E s \in Streams, len \in 1..MaxChunk : \E accepted \in 0..len :
           TeeOutput(s, len, accepted)
    \/ RunReturns
    \/ \E nth \in 2..MaxCaptureAttempts : NextAttempt(nth)

SpecCapture ==
    InitCapture /\ [][NextCapture]_vars

\* ---------------------------------------------------------------------
\* ShellCommandBuilder: buildShellCommand, shellQuote and the parsing by sh
\* ---------------------------------------------------------------------

\* Largest number of characters in the command and the arguments together.
MaxChars == 3

\* Largest number of arguments.
MaxArgs == 2

\* The characters of the enumerated strings: a letter, the quoting
\* characters, the blank, and the operator and expansion characters of sh.
\* The backquote character is written out as a word.
Chars ==
    {"a", "'", "\"", "\\", " ", "\n", "$", "backquote", ";", "|", "&", ">"}

\* The five characters that shellQuote puts in place of a single quote.
EscapedQuote ==
    <<"'", "\"", "'", "\"", "'">>

\* strings.ReplaceAll(s, old, new) for a one-character old.
RECURSIVE ReplaceAll(_, _, _)
ReplaceAll(s, old, new) ==
    IF s = <<>> THEN <<>>
    ELSE (IF Head(s) = old THEN new ELSE <<Head(s)>>)
             \o ReplaceAll(Tail(s), old, new)

\* strings.Join(parts, sep)
RECURSIVE Join(_, _)
Join(parts, sep) ==
    IF parts = <<>> THEN <<>>
    ELSE IF Len(parts) = 1 THEN parts[1]
    ELSE parts[1] \o sep \o Join(Tail(parts), sep)

\* Variant of shellQuote: an embedded single quote is left as it is.
shellQuoteNoEscape(s) ==
    <<"'">> \o s \o <<"'">>

\* Variant of shellQuote: an embedded single quote is escaped with a
\* backslash between the two quoted runs.
shellQuoteBackslash(s) ==
    <<"'">> \o ReplaceAll(s, "'", <<"'", "\\", "'", "'">>) \o <<"'">>

\* shellQuote
shellQuote(s) ==
    <<"'">> \o ReplaceAll(s, "'", EscapedQuote) \o <<"'">>

\* buildShellCommand
buildShellCommand(cmd, as) ==
    Join(<<shellQuote(cmd)>> \o [i \in 1..Len(as) |-> shellQuote(as[i])],
         <<" ">>)

\* The token recognition of sh (POSIX Shell Command Language, 2.2 and 2.3)
\* from position i of str on. mode is the quoting in force, words the
\* completed words, cur the word being built and inWord whether one is being
\* built. The result is the list of words, or a failure when a character
\* takes effect as an operator or an expansion or when a quote is left open.
RECURSIVE shScan(_, _, _, _, _, _)
shScan(str, i, mode, words, cur, inWord) ==
    IF i > Len(str)
    THEN IF mode # "plain" THEN [ok |-> FALSE, words |-> <<>>]
         ELSE [ok |-> TRUE,
               words |-> IF inWord THEN Append(words, cur) ELSE words]
    ELSE LET c == str[i]
         IN  IF mode = "single"
             THEN IF c = "'" THEN shScan(str, i + 1, "plain", words, cur, TRUE)
                  ELSE shScan(str, i + 1, "single", words, Append(cur, c), TRUE)
             ELSE IF mode = "double"
             THEN IF c = "\"" THEN shScan(str, i + 1, "plain", words, cur, TRUE)
                  ELSE IF c \in {"$", "backquote"} THEN [ok |-> FALSE, words |-> <<>>]
                  ELSE IF /\ c = "\\"
                          /\ i < Len(str)
                          /\ str[i + 1] \in {"$", "backquote", "\"", "\\"}
                  THEN shScan(str, i + 2, "double", words,
                              Append(cur, str[i + 1]), TRUE)
                  ELSE IF c = "\\" /\ i < Len(str) /\ str[i + 1] = "\n"
                  THEN shScan(str, i + 2, "double", words, cur, TRUE)
                  ELSE shScan(str, i + 1, "double", words, Append(cur, c), TRUE)
             ELSE IF c = "'" THEN shScan(str, i + 1, "single", words, cur, TRUE)
             ELSE IF c = "\"" THEN shScan(str, i + 1, "double", words, cur, TRUE)
             ELSE IF c = "\\"
             THEN IF i = Len(str) THEN [ok |-> FALSE, words |-> <<>>]
                  ELSE IF str[i + 1] = "\n"
                  THEN shScan(str, i + 2, "plain", words, cur, inWord)
                  ELSE shScan(str, i + 2, "plain", words,
                              Append(cur, str[i + 1]), TRUE)
             ELSE IF c = " "
             THEN IF inWord
                  THEN shScan(str, i + 1, "plain", Append(words, cur), <<>>, FALSE)
                  ELSE shScan(str, i + 1, "plain", words, cur, FALSE)
             ELSE IF c \in {"\n", ";", "|", "&", ">", "$", "backquote"}
             THEN [ok |-> FALSE, words |-> <<>>]
             ELSE shScan(str, i + 1, "plain", words, Append(cur, c), TRUE)

\* What `sh -c str` makes of str.
shParse(str) ==
    shScan(str, 1, "plain", <<>>, <<>>, FALSE)

\* The strings of exactly n characters.
StringsOfLen(n) ==
    [1..n -> Chars]

\* Build is about to be called with a command and up to MaxArgs arguments:
\* the characters of all of them, in order, are flat, and cuts[k] is the
\* number of characters before the k-th argument.
InitQuote ==
    /\ AllIdleBut("quote")
    /\ \E n \in 0..MaxChars :
        \E flat \in StringsOfLen(n) :
            \E m \in 0..MaxArgs :
                \E cuts \in [1..m -> 0..n] :
                    /\ \A k \in 1..(m - 1) : cuts[k] <= cuts[k + 1]
                    /\ shCommand = SubSeq(flat, 1, IF m = 0 THEN n ELSE cuts[1])
                    /\ shArgs = [k \in 1..m |->
                                  SubSeq(flat, cuts[k] + 1,
                                         IF k = m THEN n ELSE cuts[k + 1])]
    /\ fullCommand = <<>>
    /\ shWords = Nil
    /\ buildPc = "call"

\* `fullCommand := buildShellCommand(command, args)`
BuildShellCommand ==
    /\ buildPc = "call"
    /\ fullCommand' = buildShellCommand(shCommand, shArgs)
    /\ buildPc' = "built"
    /\ UNCHANGED <<shCommand, shArgs, shWords>>
    /\ UNCHANGED nonQuoteVars

\* The command made by exec.CommandContext(ctx, "sh", "-c", fullCommand) runs
\* and sh splits fullCommand into words.
ShellParses ==
    /\ buildPc = "built"
    /\ shWords' = shParse(fullCommand)
    /\ buildPc' = "parsed"
    /\ UNCHANGED <<shCommand, shArgs, fullCommand>>
    /\ UNCHANGED nonQuoteVars

NextQuote ==
    \/ BuildShellCommand
    \/ ShellParses

SpecQuote ==
    InitQuote /\ [][NextQuote]_vars

\* ---------------------------------------------------------------------
\* SignalHandler
\* ---------------------------------------------------------------------

\* The signals that Start registers for with signal.Notify.
SignalNames == {"SIGINT", "SIGTERM", "SIGHUP"}

\* The signals on which handleSignals cancels the context.
TerminationSignals == {"SIGINT", "SIGTERM"}

\* Capacity of the signals channel made by NewSignalHandler.
SignalsCapacity == 1

\* context.CancelFunc: cancels context g of cs; calling a nil function (0)
\* is guarded against by the callers, and cancelling twice changes nothing.
cancelCtx(cs, g) ==
    IF g = 0 THEN cs ELSE [cs EXCEPT ![g] = TRUE]

\* Start without its "already running" test.
startRejectedNever(isRunning) ==
    FALSE

\* The test with which Start refuses to start a running handler.
startRejected(isRunning) ==
    isRunning

\* What WithSignalHandling adds to the handler; the handler's own steps
\* leave it alone.
weVars ==
    <<processes, wePc, weId, weParent, weCancelled, weStopSaw>>

\* The SignalHandler is initialised by NewSignalHandler and the registry by
\* NewWithSignalHandling.
InitSignal ==
    /\ AllIdleBut("sig")
    /\ SigIdle

\* SignalHandler.Start, under sh.mu: a running handler answers with a
\* SignalHandlerError; otherwise a new context is created, the channel is
\* registered for the three signals and the listener goroutine is started.
SignalHandlerStart ==
    /\ shPanic = "none"
    /\ stopPc # "wait"
    /\ running \/ Len(ctxs) < MaxStarts
    /\ IF startRejected(running)
       THEN /\ startRet' = "SignalHandlerError"
            /\ UNCHANGED <<running, ctxs, cancel, notified, shWg, listenerPc>>
       ELSE /\ ctxs' = Append(ctxs, FALSE)
            /\ cancel' = Len(ctxs) + 1
            /\ running' = TRUE
            /\ notified' = TRUE
            /\ shWg' = shWg + 1
            /\ listenerPc' = "range"
            /\ startRet' = "ctx"
    /\ UNCHANGED <<signals, signalsClosed, listenerSig, stopPc, shPanic, sigLog>>
    /\ UNCHANGED weVars
    /\ UNCHANGED nonSigVars

\* SignalHandler.Stop up to sh.wg.Wait(), under sh.mu: nothing on a handler
\* that is not running; otherwise signal.Stop, close(sh.signals), which
\* panics on a channel that is closed already, and sh.cancel().
SignalHandlerStopEnter ==
    /\ shPanic = "none"
    /\ stopPc \in {"idle", "call"}
    /\ IF ~running
       THEN /\ stopPc' = "idle"
            /\ UNCHANGED <<notified, signalsClosed, ctxs, shPanic>>
       ELSE IF signalsClosed
       THEN /\ notified' = FALSE
            /\ shPanic' = "close of closed channel"
            /\ UNCHANGED <<stopPc, signalsClosed, ctxs>>
       ELSE /\ notified' = FALSE
            /\ signalsClosed' = TRUE
            /\ ctxs' = cancelCtx(ctxs, cancel)
            /\ stopPc' = "wait"
            /\ UNCHANGED shPanic
    /\ UNCHANGED <<running, signals, cancel, listenerPc, listenerSig, shWg,
                   startRet, sigLog>>
    /\ UNCHANGED weVars
    /\ UNCHANGED nonSigVars

\* SignalHandler.Stop from sh.wg.Wait() on: once the listener goroutine is
\* done, running becomes false and the mutex is released.
SignalHandlerStopWait ==
    /\ shPanic = "none"
    /\ stopPc = "wait"
    /\ shWg = 0
    /\ running' = FALSE
    /\ stopPc' = "idle"
    /\ UNCHANGED <<signals, signalsClosed, notified, ctxs, cancel, listenerPc,
                   listenerSig, shWg, shPanic, startRet, sigLog>>
    /\ UNCHANGED weVars
    /\ UNCHANGED nonSigVars

\* handleSignals: "for sig := range sh.signals" receives a buffered signal.
ListenerReceive ==
    /\ shPanic = "none"
    /\ listenerPc = "range"
    /\ signals # <<>>
    /\ listenerSig' = Head(signals)
    /\ signals' = Tail(signals)
    /\ listenerPc' = "switch"
    /\ UNCHANGED <<running, signalsClosed, notified, ctxs, cancel, shWg, stopPc,
                   shPanic, startRet, sigLog>>
    /\ UNCHANGED weVars
    /\ UNCHANGED nonSigVars

\* handleSignals: the switch. SIGINT and SIGTERM cancel the context, stop
\* the relaying and end the goroutine; SIGHUP is logged and the loop goes on.
ListenerHandle ==
    /\ shPanic = "none"
    /\ listenerPc = "switch"
    /\ IF listenerSig \in TerminationSignals
       THEN /\ ctxs' = cancelCtx(ctxs, cancel)
            /\ notified' = FALSE
            /\ listenerPc' = "exited"
            /\ shWg' = shWg - 1
       ELSE /\ listenerPc' = "range"
            /\ UNCHANGED <<ctxs, notified, shWg>>
    /\ UNCHANGED <<running, signals, signalsClosed, cancel, listenerSig, stopPc,
                   shPanic, startRet, sigLog>>
    /\ UNCHANGED weVars
    /\ UNCHANGED nonSigVars

\* handleSignals: the range loop ends on a closed and drained channel, and
\* the deferred sh.wg.Done() runs.
ListenerRangeEnds ==
    /\ shPanic = "none"
    /\ listenerPc = "range"
    /\ signals = <<>>
    /\ signalsClosed
    /\ listenerPc' = "exited"
    /\ shWg' = shWg - 1
    /\ UNCHANGED <<running, signals, signalsClosed, notified, ctxs, cancel,
                   listenerSig, stopPc, shPanic, startRet, sigLog>>
    /\ UNCHANGED weVars
    /\ UNCHANGED nonSigVars

\* The operating system sends a signal while the channel is registered.
\* Package os/signal relays it with a send that never blocks: the signal is
\* dropped when the buffer is full, and the send panics on a closed channel.
DeliverSignal(sig) ==
    /\ shPanic = "none"
    /\ notified
    /\ Len(sigLog) < MaxSignals
    /\ IF signalsClosed
       THEN /\ shPanic' = "send on closed channel"
            /\ sigLog' = Append(sigLog, [sig |-> sig, gen |-> cancel, outcome |-> "panic"])
            /\ UNCHANGED signals
       ELSE IF Len(signals) >= SignalsCapacity
       THEN /\ sigLog' = Append(sigLog, [sig |-> sig, gen |-> cancel, outcome |-> "dropped"])
            /\ UNCHANGED <<signals, shPanic>>
       ELSE /\ signals' = Append(signals, sig)
            /\ sigLog' = Append(sigLog, [sig |-> sig, gen |-> cancel, outcome |-> "queued"])
            /\ UNCHANGED shPanic
    /\ UNCHANGED <<running, signalsClosed, notified, ctxs, cancel, listenerPc,
                   listenerSig, shWg, stopPc, startRet>>
    /\ UNCHANGED weVars
    /\ UNCHANGED nonSigVars

\* A program that uses a SignalHandler: Start and Stop calls, the listener
\* goroutine and the signals that arrive.
NextSignal ==
    \/ SignalHandlerStart
    \/ SignalHandlerStopEnter
    \/ SignalHandlerStopWait
    \/ ListenerReceive
    \/ ListenerHandle
    \/ ListenerRangeEnds
    \/ \E sig \in SignalNames : DeliverSignal(sig)

SpecSignal ==
    InitSignal /\ [][NextSignal]_vars

\* The Go scheduler runs a goroutine that can take a step, and a Stop that
\* was called returns once it can.
FairSignal ==
    /\ WF_vars(ListenerReceive)
    /\ WF_vars(ListenerHandle)
    /\ WF_vars(ListenerRangeEnds)
    /\ WF_vars(SignalHandlerStopWait)

SpecSignalLive ==
    InitSignal /\ [][NextSignal]_vars /\ FairSignal

\* ---------------------------------------------------------------------
\* WithSignalHandling
\* ---------------------------------------------------------------------

\* What the SignalHandler owns; the steps of WithSignalHandling's own
\* methods leave it alone, except that Stop ends by calling the handler's.
handlerVars ==
    <<running, signals, signalsClosed, notified, ctxs, cancel, listenerPc,
      listenerSig, shWg, shPanic, startRet, sigLog>>

\* The execIDs that have an entry in e.processes.
registered(procs) ==
    {id \in ExecIDs : procs[id] # 0}

\* WithSignalHandling.GetRunningProcesses: len(e.processes).
GetRunningProcesses(procs) ==
    Cardinality(registered(procs))

\* The Execute calls that have registered and are inside the wrapped
\* executor's Execute.
Executing ==
    {c \in Calls : wePc[c] = "executing"}

\* Whether execCtx of call c is done: its own cancel function was called,
\* or the context it was derived from is a Start context that is cancelled.
ExecCtxDone(c) ==
    \/ weCancelled[c]
    \/ weParent[c] # 0 /\ ctxs[weParent[c]]

\* WithSignalHandling.Execute is called with a command line and a context
\* (Background or the one returned by the latest Start); execCtx and cancel
\* are created.
\* Calls are numbered in the order in which they are made.
WeExecuteEnter(c, id, parent) ==
    /\ shPanic = "none"
    /\ wePc[c] = "idle"
    /\ \A b \in Calls : b < c => wePc[b] # "idle"
    /\ wePc' = [wePc EXCEPT ![c] = "register"]
    /\ weId' = [weId EXCEPT ![c] = id]
    /\ weParent' = [weParent EXCEPT ![c] = parent]
    /\ UNCHANGED <<processes, weCancelled, weStopSaw>>
    /\ UNCHANGED <<handlerVars, stopPc>>
    /\ UNCHANGED nonSigVars

\* Execute, under e.mu: e.processes[execID] = cancel, replacing whatever
\* cancel function was stored under the same execID.
WeRegister(c) ==
    /\ shPanic = "none"
    /\ wePc[c] = "register"
    /\ processes' = [processes EXCEPT ![weId[c]] = c]
    /\ wePc' = [wePc EXCEPT ![c] = "executing"]
    /\ UNCHANGED <<weId, weParent, weCancelled, weStopSaw>>
    /\ UNCHANGED <<handlerVars, stopPc>>
    /\ UNCHANGED nonSigVars

\* e.executor.Execute(execCtx, cfg) returns, because the command ended or
\* because execCtx was cancelled.
WeExecuteReturns(c) ==
    /\ shPanic = "none"
    /\ wePc[c] = "executing"
    /\ wePc' = [wePc EXCEPT ![c] = "cleanup"]
    /\ UNCHANGED <<processes, weId, weParent, weCancelled, weStopSaw>>
    /\ UNCHANGED <<handlerVars, stopPc>>
    /\ UNCHANGED nonSigVars

\* Execute's deferred function: delete(e.processes, execID), whoever stored
\* the entry, and cancel().
WeCleanup(c) ==
    /\ shPanic = "none"
    /\ wePc[c] = "cleanup"
    /\ processes' = [processes EXCEPT ![weId[c]] = 0]
    /\ weCancelled' = [weCancelled EXCEPT ![c] = TRUE]
    /\ wePc' = [wePc EXCEPT ![c] = "done"]
    /\ UNCHANGED <<weId, weParent, weStopSaw>>
    /\ UNCHANGED <<handlerVars, stopPc>>
    /\ UNCHANGED nonSigVars

\* WithSignalHandling.Stop up to e.signalHandler.Stop(), under e.mu: every
\* stored cancel function is called and the map is replaced by an empty one.
WeStop ==
    /\ shPanic = "none"
    /\ stopPc = "idle"
    /\ weCancelled' = [c \in Calls |->
                          weCancelled[c] \/ \E id \in ExecIDs : processes[id] = c]
    /\ processes' = [id \in ExecIDs |-> 0]
    /\ weStopSaw' = Executing
    /\ stopPc' = "call"
    /\ UNCHANGED <<wePc, weId, weParent>>
    /\ UNCHANGED handlerVars
    /\ UNCHANGED nonSigVars

\* WithSignalHandling.Stop: e.signalHandler.Stop().
WeStopSignalHandler ==
    /\ stopPc = "call"
    /\ SignalHandlerStopEnter

\* A program that uses a WithSignalHandling executor: Start (which is the
\* handler's Start), Stop and concurrent Execute calls.
NextSignalExec ==
    \/ SignalHandlerStart
    \/ WeStop
    \/ WeStopSignalHandler
    \/ SignalHandlerStopWait
    \/ ListenerRangeEnds
    \/ \E c \in Calls :
           \/ \E id \in ExecIDs, parent \in {0, cancel} : WeExecuteEnter(c, id, parent)
           \/ WeRegister(c)
           \/ WeExecuteReturns(c)
           \/ WeCleanup(c)

SpecSignalExec ==
    InitSignal /\ [][NextSignalExec]_vars

\* ---------------------------------------------------------------------
\* MockExecutor
\* ---------------------------------------------------------------------

\* Number of expectations that are built.
MaxExpectations == 2

\* Largest value given to MockExpectationBuilder.Times.
MaxTimes == 2

\* Number of MockExecutor.Execute calls.
MaxMockCalls == 3

\* ToolConfig.Command of the calls.
MockCommands == {"echo", "ls"}

\* The matchers that are built: ExpectCommand(command), which accepts the
\* calls of one command, and an ExpectCustom matcher that accepts every call.
Matchers == MockCommands \cup {"any"}

\* MockExpectation.Matcher(ctx, cfg) of expectation e.
Matches(e, command) ==
    e.Matcher = "any" \/ e.Matcher = command

\* The limit test with "<=" in place of "<".
hasUsesLeftInclusive(e) ==
    e.Times = 0 \/ e.used <= e.Times

\* Execute: exp.Times == 0 || exp.used < exp.Times.
hasUsesLeft(e) ==
    e.Times = 0 \/ e.used < e.Times

\* Execute: the loop over m.expectations from index i; the index of the
\* first expectation that matches and has uses left, 0 when there is none.
RECURSIVE findExpectation(_, _, _)
findExpectation(exps, command, i) ==
    IF i > Len(exps) THEN 0
    ELSE IF Matches(exps[i], command) /\ hasUsesLeft(exps[i]) THEN i
    ELSE findExpectation(exps, command, i + 1)

InitMock ==
    /\ AllIdleBut("mock")
    /\ MockIdle

\* ExpectCommand(...) or ExpectCustom(...), Times(n) and Build(): the
\* expectation is appended under m.mu with used = 0.
MockBuild(matcher, times) ==
    /\ Len(expectations) < MaxExpectations
    /\ expectations' = Append(expectations,
                              [Matcher |-> matcher, Times |-> times, used |-> 0])
    /\ assertRet' = "none"
    /\ UNCHANGED <<callHistory, defaultSet, mockAnswers>>
    /\ UNCHANGED nonMockVars

\* SetDefaultBehavior with a result or an error that is not nil.
SetDefaultBehavior ==
    /\ ~defaultSet
    /\ defaultSet' = TRUE
    /\ UNCHANGED <<expectations, callHistory, mockAnswers, assertRet>>
    /\ UNCHANGED nonMockVars

\* MockExecutor.Execute, all of it under m.mu: the call is recorded, the
\* first usable expectation is charged one use and answers; otherwise the
\* default behaviour answers if one is set, else the generic success result.
MockExecute(command) ==
    /\ Len(callHistory) < MaxMockCalls
    /\ callHistory' = Append(callHistory, command)
    /\ LET i == findExpectation(expectations, command, 1)
       IN  IF i # 0
           THEN /\ expectations' = [expectations EXCEPT ![i].used = @ + 1]
                /\ mockAnswers' = Append(mockAnswers,
                                         [command |-> command, by |-> i, ret |-> "expectation"])
           ELSE /\ UNCHANGED expectations
                /\ mockAnswers' = Append(mockAnswers,
                                         [command |-> command, by |-> 0,
                                          ret |-> IF defaultSet THEN "default" ELSE "generic"])
    /\ assertRet' = "none"
    /\ UNCHANGED defaultSet
    /\ UNCHANGED nonMockVars

\* The test of AssertExpectationsMet with "<=" in place of "<".
expectationUnmetInclusive(e) ==
    e.Times > 0 /\ e.used <= e.Times

\* AssertExpectationsMet: exp.Times > 0 && exp.used < exp.Times.
expectationUnmet(e) ==
    e.Times > 0 /\ e.used < e.Times

\* AssertExpectationsMet: the loop over m.expectations from index i, which
\* returns an error at the first unmet expectation and nil after the last.
RECURSIVE assertExpectationsMet(_, _)
assertExpectationsMet(exps, i) ==
    IF i > Len(exps) THEN "nil"
    ELSE IF expectationUnmet(exps[i]) THEN "error"
    ELSE assertExpectationsMet(exps, i + 1)

\* MockExecutor.AssertExpectationsMet, under m.mu.RLock.
MockAssertExpectationsMet ==
    /\ assertRet' = assertExpectationsMet(expectations, 1)
    /\ UNCHANGED <<expectations, callHistory, defaultSet, mockAnswers>>
    /\ UNCHANGED nonMockVars

\* A test that builds expectations and calls Execute from several
\* goroutines; the mutex orders the calls.
NextMock ==
    \/ \E matcher \in Matchers, times \in -1..MaxTimes : MockBuild(matcher, times)
    \/ SetDefaultBehavior
    \/ \E command \in MockCommands : MockExecute(command)

SpecMock ==
    InitMock /\ [][NextMock]_vars

\* A test that builds expectations, calls Execute and asks, at any moment,
\* whether the expectations are met; it sets no default behaviour, which
\* AssertExpectationsMet does not read.
NextMockAssert ==
    \/ \E matcher \in Matchers, times \in -1..MaxTimes : MockBuild(matcher, times)
    \/ \E command \in MockCommands : MockExecute(command)
    \/ MockAssertExpectationsMet

SpecMockAssert ==
    InitMock /\ [][NextMockAssert]_vars

\* ---------------------------------------------------------------------
\* Type invariant
\* ---------------------------------------------------------------------

TypeOK ==
    /\ cfg \in ToolConfigs
    /\ ctxErr \in {"nil"} \cup ContextErrors
    /\ execErr \in {"nil"} \cup ContextErrors
    /\ pc \in {"call", "attempt", "running", "ran", "returned", "delay", "done"}
    /\ procState \in {"none", "running", "exited", "killed"}
    /\ attempts \in 0..(MaxRetriesBound + 1)
    /\ spawned \in 0..attempts
    /\ Len(results) \in 0..attempts
    /\ deadlinePc \in {"none", "running", "ran"}

\* ---------------------------------------------------------------------
\* Vocabulary of the properties
\* ---------------------------------------------------------------------

\* The <<result, error>> pair returned by the latest executeOnce.
LastAttempt ==
    results[Len(results)]

\* An attempt result that is an outcome with exit status 0.
SucceededAttempt(r) ==
    r[2] = Nil /\ r[1].ExitCode = 0

\* An attempt result that the retry loop retries: a non-zero exit, a
\* TimeoutError or a generic system error.
RetryableFailure(r) ==
    \/ r[2] = Nil /\ r[1].ExitCode # 0
    \/ r[2].type \in {"TimeoutError", "SystemError"}

\* An error whose chain contains context.Canceled or context.DeadlineExceeded.
IsCancellationError(e) ==
    \E name \in ContextErrors : ErrorsIs(e, CtxError(name))

\* Execute returned from one of the two places that test the ambient context.
EndedByCancellation ==
    pc = "done" /\ returnedBy \in {"ctxAfterAttempt", "ctxDuringDelay"}

\* ---------------------------------------------------------------------
\* Properties
\* ---------------------------------------------------------------------

\* C1: every return of Execute, on every path, carries exactly one of a
\* non-nil result and a non-nil error: never both and never neither.
C1_ExactlyOneOfResultAndError ==
    pc = "done" =>
        /\ (retRes = Nil) <=> (retErr # Nil)
        /\ retRes # Nil => retRes.type = "ExecutionResult"

\* Witness of C1: the retry loop dropped an outcome and returned an error
\* because the context was done after the attempt.
C1_Witness ==
    /\ pc = "done"
    /\ returnedBy = "ctxAfterAttempt"
    /\ LastAttempt[2] = Nil
    /\ retErr # Nil

\* C2: in one call of Execute the number of executeOnce calls never exceeds
\* 1 + MaxRetries (none at all for a configuration that Validate rejects), and
\* each of them spawns at most one process.
C2_AttemptBudget ==
    /\ spawned <= attempts
    /\ cfg.MaxRetries >= 0 => attempts <= 1 + cfg.MaxRetries
    /\ cfg.MaxRetries < 0 => attempts = 0

\* Witness of C2: a retry session that used its whole budget.
C2_Witness ==
    /\ pc = "done"
    /\ cfg.MaxRetries = 2
    /\ attempts = 3
    /\ spawned = 3

\* C3: with MaxRetries > 0 and no cancellation, if each of the
\* 1 + MaxRetries attempts fails retryably, Execute returns a nil result and a
\* RetryExhaustedError with Attempts = 1 + MaxRetries and a non-nil LastError.
C3_RetryExhausted ==
    ( /\ pc = "done"
      /\ cfg.MaxRetries > 0
      /\ ctxErr = "nil"
      /\ Len(results) = 1 + cfg.MaxRetries
      /\ \A i \in 1..Len(results) : RetryableFailure(results[i]) )
    => /\ retRes = Nil
       /\ retErr.type = "RetryExhaustedError"
       /\ retErr.Attempts = 1 + cfg.MaxRetries
       /\ retErr.LastError # Nil

\* Witness of C3: three failing attempts with MaxRetries = 2, the last one a
\* non-zero exit.
C3_Witness ==
    /\ pc = "done"
    /\ cfg.MaxRetries = 2
    /\ ctxErr = "nil"
    /\ Len(results) = 3
    /\ \A i \in 1..3 : RetryableFailure(results[i])
    /\ LastAttempt[2] = Nil
    /\ retErr.type = "RetryExhaustedError"

\* C4: in a retry session the first attempt that yields exit status 0 is the
\* last attempt: no attempt and no delay follows it, and Execute returns its
\* result with a nil error.
C4_FirstSuccessReturns ==
    cfg.MaxRetries > 0 =>
        \A i \in 1..Len(results) :
            SucceededAttempt(results[i]) =>
                /\ i = Len(results)
                /\ attempts = i
                /\ delays = (IF cfg.RetryDelay > 0 THEN i - 1 ELSE 0)
                /\ pc \in {"returned", "done"}
                /\ pc = "done" => /\ retRes = results[i][1]
                                  /\ retRes.ExitCode = 0
                                  /\ retErr = Nil

\* Witness of C4: fail, succeed with MaxRetries = 2 makes exactly 2 attempts.
C4_Witness ==
    /\ pc = "done"
    /\ cfg.MaxRetries = 2
    /\ cfg.RetryDelay > 0
    /\ Len(results) = 2
    /\ RetryableFailure(results[1])
    /\ SucceededAttempt(results[2])
    /\ attempts = 2

C6_NotFoundShortCircuits ==
    \A i \in 1..Len(results) :
        results[i][2].type = "ExecutableNotFoundError" =>
            /\ i = Len(results)
            /\ attempts = i
            /\ delays = (IF cfg.RetryDelay > 0 THEN i - 1 ELSE 0)
            /\ pc \in {"returned", "done"}
            /\ pc = "done" => /\ retRes = Nil
                              /\ retErr = results[i][2]

\* Witness of C6: the second attempt of a session with budget left and a
\* positive RetryDelay did not find the executable.
C6_Witness ==
    /\ pc = "done"
    /\ cfg.MaxRetries = 2
    /\ cfg.RetryDelay > 0
    /\ Len(results) = 2
    /\ results[2][2].type = "ExecutableNotFoundError"
    /\ retErr.type = "ExecutableNotFoundError"

\* C7: when the ambient context becomes done while Execute waits out the
\* RetryDelay, the wait ends without the timer: no further attempt is started
\* and Execute returns a nil result and an error whose chain contains the
\* context's error.
C7_CancelDuringDelay ==
    cancelPc = "delay" =>
        /\ attempts = cancelAttempts
        /\ pc \in {"delay", "done"}
        /\ pc = "done" => /\ retRes = Nil
                          /\ retErr # Nil
                          /\ ErrorsIs(retErr, CtxError(ctxErr))

\* Witness of C7: Execute returned after a cancellation during the first
\* delay of a session with MaxRetries = 2.
C7_Witness ==
    /\ cancelPc = "delay"
    /\ pc = "done"
    /\ cfg.MaxRetries = 2
    /\ attempts = 1
    /\ ctxErr = "Canceled"

\* C8 as stated: whenever Execute ends because the ambient context was
\* cancelled, the error it returns is the context's error itself, not wrapped
\* inside another error value.
C8_NeverWrapped ==
    (EndedByCancellation /\ IsCancellationError(retErr)) =>
        retErr = CtxError(ctxErr)

\* C8 as amended: whenever Execute ends because the ambient context was found
\* done, after an attempt or during the delay, it returns a nil result and an
\* error that is never a RetryExhaustedError: the attempt's own error,
\* unchanged, when the attempt returned one, and otherwise a fmt.Errorf value
\* that wraps the context's error once; and no RetryExhaustedError ever
\* carries a context error.
C8_CancellationNotExhausted ==
    /\ EndedByCancellation =>
        /\ retRes = Nil
        /\ retErr.type # "RetryExhaustedError"
        /\ IF returnedBy = "ctxAfterAttempt" /\ LastAttempt[2] # Nil
           THEN retErr = LastAttempt[2]
           ELSE /\ retErr.type = "wrapError"
                /\ retErr.inner = CtxError(ctxErr)
                /\ retErr # CtxError(ctxErr)
    /\ (pc = "done" /\ retErr.type = "RetryExhaustedError") =>
        ~IsCancellationError(retErr)

\* Witness of C8: the ambient context reached its deadline during the delay
\* after the second attempt, and Execute returned the fmt.Errorf wrapper.
C8_Witness ==
    /\ EndedByCancellation
    /\ returnedBy = "ctxDuringDelay"
    /\ ctxErr = "DeadlineExceeded"
    /\ Len(results) = 2
    /\ retErr.type = "wrapError"
    /\ ErrorsIs(retErr, CtxError("DeadlineExceeded"))

\* C9 as stated: in a retry session, if the ambient context is cancelled
\* while an attempt (its process) is running, Execute returns a cancellation error after
\* that attempt, starts no further attempt and does not return
\* RetryExhaustedError.
C9_CancellationErrorAfterAttempt ==
    (cfg.MaxRetries > 0 /\ cancelPc = "running" /\ pc = "done") =>
        /\ attempts = cancelAttempts
        /\ retRes = Nil
        /\ IsCancellationError(retErr)
        /\ retErr.type # "RetryExhaustedError"

\* C9 as amended: in a retry session, if the ambient context is cancelled
\* while an attempt is running, Execute returns after that attempt, starts no
\* further attempt and never returns RetryExhaustedError, also when the
\* attempt was the last of the budget: it returns the attempt's result when
\* the attempt still exited with status 0, the attempt's own error when it
\* returned one, and otherwise an error that wraps the context's error.
C9_NoAttemptAfterCancellation ==
    (cfg.MaxRetries > 0 /\ cancelPc \in {"running", "ran"}) =>
        /\ attempts = cancelAttempts
        /\ delays = (IF cfg.RetryDelay > 0 THEN attempts - 1 ELSE 0)
        /\ pc \in {"running", "ran", "returned", "done"}
        /\ pc = "done" =>
            /\ retErr.type # "RetryExhaustedError"
            /\ IF SucceededAttempt(LastAttempt)
               THEN retRes = LastAttempt[1] /\ retErr = Nil
               ELSE /\ retRes = Nil
                    /\ retErr = (IF LastAttempt[2] # Nil THEN LastAttempt[2]
                                 ELSE WrapError("context done", CtxError(ctxErr)))

\* Witness of C9: the context was cancelled while the last attempt of the
\* budget ran; its process was killed and Execute returned the wrapped
\* context error.
C9_Witness ==
    /\ cfg.MaxRetries = 2
    /\ cancelPc = "running"
    /\ cancelAttempts = 3
    /\ procState = "killed"
    /\ pc = "done"
    /\ returnedBy = "ctxAfterAttempt"
    /\ IsCancellationError(retErr)

\* C10: when the ambient context is cancelled while the process of an attempt
\* is running and the process is terminated for it (the attempt's own
\* deadline has not fired), Execute returns a nil result and a cancellation
\* error, for MaxRetries = 0 as well as > 0.
C10_CancelledProcessReturnsError ==
    ( /\ pc = "done"
      /\ cancelPc = "running"
      /\ ctxErr = "Canceled"
      /\ procState = "killed"
      /\ ExecCtxErr = "Canceled" )
    => /\ retRes = Nil
       /\ IsCancellationError(retErr)

\* The latest executeOnce call has returned and the timer of its WithTimeout
\* context fired while its process was still running.
TimerFiredWhileRunning ==
    /\ attempts > 0
    /\ Len(results) = attempts
    /\ deadlinePc = "running"

\* Every attempt classified as TimeoutError carries a nil result and the
\* configured timeout, which is positive.
TimeoutErrorWellFormed ==
    \A i \in 1..Len(results) :
        results[i][2].type = "TimeoutError"
            => /\ cfg.Timeout > 0
               /\ results[i] = <<Nil, TimeoutError(cfg.Timeout)>>

\* C11 as stated: an attempt with Timeout > 0 whose process is still running
\* when the per-attempt timeout elapses returns (nil, TimeoutError) with the
\* configured timeout and no ExecutionResult; an attempt with Timeout = 0 is
\* never classified as TimeoutError.
C11_TimeoutWhileRunning ==
    /\ TimerFiredWhileRunning => LastAttempt = <<Nil, TimeoutError(cfg.Timeout)>>
    /\ TimeoutErrorWellFormed

\* C11, amended: an attempt whose timer fires while its process is still
\* running returns (nil, TimeoutError) with the configured timeout, unless the
\* process still exits with status 0 by itself before it is killed and
\* cmd.Run() reports no error, in which case that ExecutionResult is returned
\* with a nil error; a TimeoutError always comes with a nil result and the
\* configured timeout, and never with Timeout = 0.
C11_TimeoutUnlessExitedZero ==
    /\ TimerFiredWhileRunning
           => \/ LastAttempt = <<Nil, TimeoutError(cfg.Timeout)>>
              \/ /\ procState = "exited"
                 /\ runErr = Nil
                 /\ LastAttempt = <<buildExecutionResult(0), Nil>>
    /\ TimeoutErrorWellFormed

\* Witness of C11: the timer fired while the process ran, the process was
\* killed for it and the attempt returned the TimeoutError.
C11_Witness ==
    /\ TimerFiredWhileRunning
    /\ ctxErr = "nil"
    /\ procState = "killed"
    /\ LastAttempt = <<Nil, TimeoutError(cfg.Timeout)>>

\* The ambient context was already done when the latest executeOnce call
\* classified its attempt: it became done before the call or during it.
AmbientDoneAtClassification ==
    cancelPc \in {"call", "attempt", "running", "ran"}

\* C12: an attempt is classified as TimeoutError only when its own
\* per-attempt timer fired and the ambient context was not itself done; when
\* the ambient context was cancelled or reached its own deadline the attempt
\* is not a TimeoutError, whichever of the events came first.
C12_TimeoutOnlyByOwnTimer ==
    ( /\ attempts > 0
      /\ Len(results) = attempts
      /\ LastAttempt[2].type = "TimeoutError" )
    => /\ deadlinePc # "none"
       /\ ~AmbientDoneAtClassification

\* C13: whenever the process exits by itself and cmd.Run() reports that exit
\* (nil for status 0, an ExitError carrying the status otherwise), the attempt
\* returns an ExecutionResult with exactly that status and a nil error,
\* whatever the timer and the ambient context did in between.
C13_SelfExitIsOutcome ==
    ( /\ attempts > 0
      /\ Len(results) = attempts
      /\ procState = "exited"
      /\ runErr.type \in {"nil", "ExitError"} )
    => LastAttempt =
           <<buildExecutionResult(IF runErr = Nil THEN 0 ELSE runErr.code), Nil>>

\* The fields of a ToolConfig that make it invalid: an empty Command and the
\* negative numeric fields.
InvalidFields(tc) ==
    {f \in {"Command"} : tc.Command = ""}
    \cup {f \in {"MaxRetries", "RetryDelay", "Timeout", "MaxStdoutBytes",
                 "MaxStderrBytes"} : tc[f] < 0}

\* Execute has not gone past validation: no executeOnce call, no process.
NothingAttempted ==
    /\ pc \in {"call", "done"}
    /\ attempts = 0
    /\ spawned = 0
    /\ results = <<>>

\* C14: a config with an empty Command or a negative MaxRetries, RetryDelay,
\* Timeout, MaxStdoutBytes or MaxStderrBytes makes Execute return (nil,
\* ValidationError) naming an offending field, without any attempt and
\* without spawning a process, whatever its MaxRetries.
C14_InvalidConfigRejected ==
    InvalidFields(cfg) # {}
        => /\ NothingAttempted
           /\ pc = "done"
                  => /\ retRes = Nil
                     /\ retErr.type = "ValidationError"
                     /\ retErr.Field \in InvalidFields(cfg)
                     /\ returnedBy = "validate"

\* Witness of C14: a config with retries whose only fault is a negative
\* MaxStderrBytes has been rejected.
C14_Witness ==
    /\ cfg.MaxRetries = MaxRetriesBound
    /\ InvalidFields(cfg) = {"MaxStderrBytes"}
    /\ pc = "done"
    /\ retErr = ValidationError("MaxStderrBytes")
    /\ attempts = 0

\* C15: when the configured CommandValidator rejects the command, Execute
\* returns (nil, CommandNotAllowedError) carrying the command and the
\* validator's reason, with zero attempts and no process, also with
\* MaxRetries > 0; with a nil validator no command is rejected and a valid
\* config always reaches an attempt.
C15_ValidatorRejects ==
    /\ (InvalidFields(cfg) = {} /\ cfg.CommandValidator = "deny")
           => /\ NothingAttempted
              /\ pc = "done"
                     => /\ retRes = Nil
                        /\ retErr = CommandNotAllowedError(cfg.Command,
                                                           "not in allowlist")
    /\ cfg.CommandValidator = "nil"
           => /\ retErr.type # "CommandNotAllowedError"
              /\ (InvalidFields(cfg) = {} /\ pc = "done") => attempts >= 1

\* Witness of C15: a config with retries was rejected by its validator
\* before any attempt.
C15_Witness ==
    /\ cfg.MaxRetries = MaxRetriesBound
    /\ cfg.CommandValidator = "deny"
    /\ pc = "done"
    /\ retErr.type = "CommandNotAllowedError"
    /\ retErr.Command = cfg.Command
    /\ attempts = 0

\* C16: a config with a static Stdin reader and MaxRetries > 0 is rejected at
\* validation time with a ValidationError: no attempt is made, so a consumed
\* stdin stream is never handed to a second attempt.
C16_StaticStdinWithRetriesRejected ==
    (cfg.Stdin = "reader" /\ cfg.MaxRetries > 0)
        => /\ NothingAttempted
           /\ pc = "done" => (retRes = Nil /\ returnedBy = "validate")

\* C17: when the retries are exhausted and the last attempt produced an
\* outcome, the RetryExhaustedError has a LastResult field holding that
\* outcome (its ExitCode and Stderr).
C17_ExhaustedExposesLastResult ==
    ( /\ pc = "done"
      /\ returnedBy = "exhausted"
      /\ LastAttempt[2] = Nil )
    => /\ "LastResult" \in DOMAIN retErr
       /\ retErr.LastResult = LastAttempt[1]

\* The tasks that are inside the wrapped executor.Execute.
InExecute ==
    {i \in Indices : taskPc[i] = "execute"}

\* C18: ExecuteConcurrent over N configs returns exactly N results, and
\* results[i] has Index = i, Config = configs[i] and the Result and Error
\* that the wrapped Execute returned for configs[i], for every maxConcurrency
\* (zero and negative included) and every completion order.
C18_ResultsMatchConfigs ==
    mainPc = "done"
        => /\ DOMAIN concRet.results = Indices
           /\ \A i \in Indices :
                  concRet.results[i] =
                      [Index |-> i, Config |-> configs[i],
                       Result |-> taskOut[i][1], Error |-> taskOut[i][2]]

\* Witness of C18: a call with the largest number of configs, not all equal,
\* and a non-positive maxConcurrency has returned; its last entry carries
\* the last index, and one entry holds an error while another holds a result.
C18_Witness ==
    /\ mainPc = "done"
    /\ Cardinality(Indices) = MaxConfigs
    /\ maxConcurrency <= 0
    /\ configs[0] # configs[1]
    /\ concRet.results[MaxConfigs - 1].Index = MaxConfigs - 1
    /\ concRet.results[0].Error # Nil
    /\ concRet.results[1].Result # Nil

\* C19: at every moment the number of tasks inside the wrapped Execute is at
\* most max(maxConcurrency, 1).
C19_BoundedConcurrency ==
    Cardinality(InExecute) <= (IF maxConcurrency >= 1 THEN maxConcurrency ELSE 1)

\* Witness of C19: with maxConcurrency = 2, two tasks are inside Execute
\* while a third one waits for a slot.
C19_Witness ==
    /\ maxConcurrency = 2
    /\ Cardinality(InExecute) = 2
    /\ \E i \in Indices : taskPc[i] = "acquire"

\* C20: a task whose Execute returns an error neither cancels nor skips its
\* siblings: no config is ever executed twice, and once ExecuteConcurrent has
\* returned with some task failed, every config was executed exactly once,
\* errors sit in the entries of the failed tasks only, the other entries
\* hold their results, and ExecuteConcurrent itself returned a nil error.
C20_FailureIsolated ==
    /\ \A i \in Indices : execCalls[i] <= 1
    /\ (mainPc = "done" /\ \E j \in Indices : taskOut[j][2] # Nil)
           => /\ concRet.err = Nil
              /\ \A i \in Indices :
                     /\ execCalls[i] = 1
                     /\ concRet.results[i].Error # Nil <=> taskOut[i][2] # Nil
                     /\ taskOut[i][2] = Nil
                            => concRet.results[i].Result = taskOut[i][1]

\* Witness of C20: the task of index 0 failed, its siblings succeeded, and
\* the call returned all of it with a nil error.
C20_Witness ==
    /\ mainPc = "done"
    /\ Cardinality(Indices) = MaxConfigs
    /\ concRet.results[0].Error # Nil
    /\ \A i \in Indices \ {0} : concRet.results[i].Result # Nil
    /\ concRet.err = Nil

\* The goroutine of index i was waiting at the semaphore send when the
\* context was cancelled, and is still waiting there.
WaitingForSlot(i) ==
    i \in cancelWaiters /\ taskPc[i] = "acquire"

\* C21: a task that is waiting to acquire a semaphore slot when the context
\* is cancelled is interrupted: it can leave the wait at once, without a
\* slot being freed for it; and the call still returns an entry for every one
\* of the N configs.
C21_WaitInterruptedByCancel ==
    /\ \A i \in Indices :
           (concCtxErr # "nil" /\ WaitingForSlot(i)) => ENABLED TaskStep(i)
    /\ mainPc = "done" => DOMAIN concRet.results = Indices

\* The smaller of two numbers.
Min(a, b) ==
    IF a <= b THEN a ELSE b

\* The text and the truncation flag that the result holds for a stream.
CapturedText(s) ==
    IF s = "stdout" THEN captured.Output ELSE captured.Stderr

CapturedFlag(s) ==
    IF s = "stdout" THEN captured.StdoutTruncated ELSE captured.StderrTruncated

\* C22: for a stream with cap C > 0 whose producer wrote T bytes over any
\* sequence of Write calls, the captured text is exactly the first min(T, C)
\* bytes and the truncation flag is true if and only if T > C; with C = 0 all
\* T bytes are captured and the flag is false. This holds of the buffer after
\* every write and of the ExecutionResult once the command returned.
C22_CapturedPrefix ==
    \A s \in DOMAIN maxBytes :
        LET T == produced[s]
            C == maxBytes[s]
            kept == IF C > 0 THEN Min(T, C) ELSE T
        IN  /\ buffers[s] = Chunk(s, 0, kept)
            /\ truncFlag(lw[s]) <=> (C > 0 /\ T > C)
            /\ capturePc = "returned"
                   => /\ CapturedText(s) = Chunk(s, 0, kept)
                      /\ CapturedFlag(s) <=> (C > 0 /\ T > C)

\* Witness of C22: stdout capped at 2 bytes received 5 and was truncated in
\* the middle of a chunk; stderr capped at 3 received exactly 3 and is not
\* truncated.
C22_Witness ==
    /\ capturePc = "returned"
    /\ maxBytes["stdout"] = 2
    /\ produced["stdout"] = MaxProduced
    /\ Len(captured.Output) = 2
    /\ captured.StdoutTruncated
    /\ maxBytes["stderr"] = 3
    /\ produced["stderr"] = 3
    /\ Len(captured.Stderr) = 3
    /\ ~captured.StderrTruncated

\* C23: parsing the string built by buildShellCommand(command, args) as sh
\* does yields exactly 1 + len(args) words, equal to command and to each
\* argument in order, for all tokens over the alphabet: no character takes
\* effect as an operator, an expansion or a word separator.
C23_ShellRoundTrip ==
    buildPc = "parsed"
        => /\ shWords.ok
           /\ Len(shWords.words) = 1 + Len(shArgs)
           /\ shWords.words = <<shCommand>> \o shArgs

\* Witness of C23: a command with a single quote and a blank in it, and an
\* argument that is an operator character, came back from sh unchanged.
C23_Witness ==
    /\ buildPc = "parsed"
    /\ shCommand = <<"'", " ">>
    /\ shArgs = <<<<";">>>>
    /\ shWords.ok
    /\ shWords.words = <<shCommand, <<";">>>>

\* The concatenation of a sequence of strings.
RECURSIVE Flatten(_)
Flatten(seqs) ==
    IF seqs = <<>> THEN <<>> ELSE Head(seqs) \o Flatten(Tail(seqs))

\* The quoting that C24 describes: a single quote, the string with each
\* single quote replaced by the five characters '"'"', and a single quote.
QuotedForm(s) ==
    <<"'">>
        \o Flatten([k \in 1..Len(s) |->
                       IF s[k] = "'" THEN <<"'", "\"", "'", "\"", "'">>
                       ELSE <<s[k]>>])
        \o <<"'">>

\* C24: buildShellCommand(command, args) is the quoted command followed by
\* the quoted arguments in order, each preceded by a single space, where the
\* quoted form of s is a single quote, s with every single quote replaced by
\* the five characters '"'"', and a single quote; the empty string is quoted
\* as two single quotes.
C24_QuotedFormat ==
    buildPc \in {"built", "parsed"}
        => /\ fullCommand =
                  QuotedForm(shCommand)
                      \o Flatten([k \in 1..Len(shArgs) |->
                                     <<" ">> \o QuotedForm(shArgs[k])])
           /\ (shCommand = <<>> /\ shArgs = <<>>) => fullCommand = <<"'", "'">>

\* Witness of C24: a command ending in a single quote and an empty argument
\* were built into 'a'"'"'' ''.
C24_Witness ==
    /\ buildPc = "built"
    /\ shCommand = <<"a", "'">>
    /\ shArgs = <<<<>>>>
    /\ fullCommand = <<"'", "a", "'", "\"", "'", "\"", "'", "'", " ", "'", "'">>

\* C27: a SignalHandler.Start call on a running handler returns the
\* SignalHandlerError and changes nothing: the handler stays running, the
\* context of the first Start is not cancelled, and no further listener
\* goroutine is started.
C27_StartWhileRunningRejected ==
    [][(SignalHandlerStart /\ running)
           => /\ startRet' = "SignalHandlerError"
              /\ running'
              /\ ctxs' = ctxs
              /\ UNCHANGED <<cancel, notified, signals, signalsClosed,
                             listenerPc, listenerSig, shWg, stopPc, shPanic>>]_vars

\* Witness of C27: Start was refused on a running handler whose only
\* context is live and whose only listener is waiting for signals.
C27_Witness ==
    /\ startRet = "SignalHandlerError"
    /\ running
    /\ ctxs = <<FALSE>>
    /\ listenerPc = "range"
    /\ shWg = 1

\* A SIGINT or SIGTERM was relayed while context g was the handler's.
TerminationSignalDelivered(g) ==
    \E k \in 1..Len(sigLog) :
        /\ sigLog[k].sig \in TerminationSignals
        /\ sigLog[k].gen = g

\* Context g, returned by the g-th successful Start, is cancelled.
StartContextDone(g) ==
    /\ g \in 1..Len(ctxs)
    /\ ctxs[g]

\* C28: SignalHandler.Stop does nothing on a handler that is not running;
\* on a running handler it cancels the context that Start returned without
\* a panic and goes on to wait for the listener goroutine, and that wait
\* is never stuck: the listener can take a step or Stop can finish by
\* setting running to false.
C28_StopIdempotentTerminates ==
    /\ [][SignalHandlerStopEnter
              => IF ~running
                 THEN UNCHANGED <<running, signals, signalsClosed, notified, ctxs,
                                  cancel, listenerPc, listenerSig, shWg, shPanic>>
                 ELSE /\ shPanic' = "none"
                      /\ StartContextDone(cancel)'
                      /\ stopPc' = "wait"]_vars
    /\ [](stopPc = "wait"
              => \/ ENABLED SignalHandlerStopWait
                 \/ ENABLED ListenerReceive
                 \/ ENABLED ListenerHandle
                 \/ ENABLED ListenerRangeEnds)
    /\ [][SignalHandlerStopWait => ~running']_vars

\* C29: every SIGINT or SIGTERM relayed while the handler runs leads to the
\* cancellation of the context that Start returned, also when a SIGHUP came
\* before it; a context is cancelled only after such a signal or by Stop.
C29_TerminationSignalCancels ==
    /\ \A g \in 1..MaxStarts :
           TerminationSignalDelivered(g) ~> StartContextDone(g)
    /\ [](\A g \in 1..MaxStarts :
              StartContextDone(g)
                  => \/ TerminationSignalDelivered(g)
                     \/ signalsClosed)

\* The Execute calls that were made and have not returned.
InFlight ==
    {c \in Calls : wePc[c] \in {"register", "executing", "cleanup"}}

\* C25: GetRunningProcesses counts the Execute calls in flight, whatever
\* their command lines: at least the calls that are inside the wrapped
\* executor (unless Stop removed their entries) and at most the calls that
\* have not returned.
C25_RunningProcessesCountsCalls ==
    weStopSaw \cap Executing = {}
        => /\ GetRunningProcesses(processes) >= Cardinality(Executing)
           /\ GetRunningProcesses(processes) <= Cardinality(InFlight)

\* C26: once WithSignalHandling.Stop has returned, the execution context of
\* every Execute call that was inside the wrapped executor when Stop ran is
\* cancelled, whatever context the call was given; Stop leaves the registry
\* empty; and a Stop on an empty registry and a stopped handler changes
\* nothing.
C26_StopCancelsEveryExecution ==
    /\ [](stopPc = "idle" => \A c \in weStopSaw : ExecCtxDone(c))
    /\ [][WeStop => registered(processes') = {}]_vars
    /\ [][(WeStop /\ registered(processes) = {} /\ ~running)
              => UNCHANGED <<weCancelled, processes, handlerVars>>]_vars

\* The number of recorded calls that expectation k answered.
UsesOf(k) ==
    Cardinality({j \in 1..Len(mockAnswers) : mockAnswers[j].by = k})

\* The expectations that may answer a call of the command: the matcher
\* accepts it and the expectation answered fewer calls than its Times, or
\* its Times is 0.
EligibleFor(command) ==
    {k \in 1..Len(expectations) :
        /\ Matches(expectations[k], command)
        /\ expectations[k].Times = 0 \/ UsesOf(k) < expectations[k].Times}

\* C30: in whatever order the mutex lets the Execute calls in, each call is
\* answered by the first-registered expectation whose matcher accepts it and
\* whose use count is below its Times (0 for no limit), or by the default
\* behaviour when there is none; an expectation with Times = n > 0 never
\* answers more than n calls.
C30_FirstUsableExpectationAnswers ==
    /\ [](\A k \in 1..Len(expectations) :
              expectations[k].Times > 0 => UsesOf(k) <= expectations[k].Times)
    /\ [][Len(callHistory') = Len(callHistory) + 1
              => LET command == callHistory'[Len(callHistory')]
                     answer == mockAnswers'[Len(mockAnswers')]
                     eligible == EligibleFor(command)
                 IN  /\ Len(mockAnswers') = Len(callHistory')
                     /\ answer.command = command
                     /\ IF eligible = {}
                        THEN /\ answer.by = 0
                             /\ answer.ret = IF defaultSet THEN "default" ELSE "generic"
                        ELSE /\ answer.by \in eligible
                             /\ \A k \in eligible : answer.by <= k
                             /\ answer.ret = "expectation"]_vars

\* Witness of C30: two one-use expectations for echo answered the first and
\* the second echo call in the order of their registration, and the third
\* call fell through to the default behaviour.
C30_Witness ==
    /\ expectations = <<[Matcher |-> "echo", Times |-> 1, used |-> 1],
                        [Matcher |-> "echo", Times |-> 1, used |-> 1]>>
    /\ defaultSet
    /\ callHistory = <<"echo", "echo", "echo">>
    /\ mockAnswers = <<[command |-> "echo", by |-> 1, ret |-> "expectation"],
                       [command |-> "echo", by |-> 2, ret |-> "expectation"],
                       [command |-> "echo", by |-> 0, ret |-> "default"]>>

\* C31: AssertExpectationsMet returns an error exactly when some registered
\* expectation has Times > 0 and answered fewer than Times calls;
\* expectations with Times = 0 never make it fail, whether or not they
\* answered a call.
C31_AssertExpectationsMet ==
    assertRet # "none"
        => /\ assertRet = "error"
                <=> \E k \in 1..Len(expectations) :
                        /\ expectations[k].Times > 0
                        /\ UsesOf(k) < expectations[k].Times
           /\ (\A k \in 1..Len(expectations) : expectations[k].Times = 0)
                  => assertRet = "nil"

\* Witness of C31: the assertion failed on a two-use expectation that
\* answered one call, next to an unlimited expectation that answered none.
C31_Witness ==
    /\ assertRet = "error"
    /\ expectations = <<[Matcher |-> "echo", Times |-> 2, used |-> 1],
                        [Matcher |-> "any", Times |-> 0, used |-> 0]>>
    /\ mockAnswers = <<[command |-> "echo", by |-> 1, ret |-> "expectation"]>>

\* C32: a retry session with RetryDelay > 0 that ends in RetryExhaustedError
\* has waited exactly MaxRetries delays; the k-th delay starts after the
\* k-th attempt has returned and while more attempts remain, and the next
\* attempt starts only after that delay, so no delay precedes the first
\* attempt or follows the last one; with RetryDelay = 0 nothing is waited.
C32_DelaysBetweenAttempts ==
    /\ []((pc = "done" /\ returnedBy = "exhausted" /\ cfg.RetryDelay > 0)
              => /\ delays = cfg.MaxRetries
                 /\ attempts = cfg.MaxRetries + 1)
    /\ [](cfg.RetryDelay = 0 => delays = 0 /\ pc # "delay")
    /\ [][delays' # delays
              => /\ delays' = delays + 1
                 /\ pc = "returned" /\ pc' = "delay"
                 /\ delays' = attempts
                 /\ attempts < maxAttempts(cfg)]_vars
    /\ [][(attempts' # attempts /\ cfg.RetryDelay > 0 /\ ~fastPath(cfg))
              => /\ attempts' = attempts + 1
                 /\ delays = attempts]_vars

\* Witness of C32: two retries with a delay were exhausted after three
\* attempts and two delays.
C32_Witness ==
    /\ pc = "done"
    /\ returnedBy = "exhausted"
    /\ cfg.RetryDelay > 0
    /\ cfg.MaxRetries = 2
    /\ attempts = 3
    /\ delays = 2

\* An attempt that ended in a TimeoutError or in a generic system error.
HardFailure(res, err) ==
    err # Nil /\ err.type \in {"TimeoutError", "SystemError"}

\* C33: in the retry loop an attempt that ended in a TimeoutError or in a
\* system error, with budget remaining and the ambient context not done, is
\* followed by the delay (when RetryDelay > 0) and then by another attempt,
\* as after a non-zero exit; and when a later attempt exits with status 0,
\* Execute returns that attempt's result with a nil error.
C33_HardFailuresRetried ==
    /\ [][(/\ pc = "returned" /\ pc' # "returned"
            /\ ~fastPath(cfg)
            /\ HardFailure(onceRes, onceErr)
            /\ attempt < maxAttempts(cfg)
            /\ ctxErr = "nil")
              => /\ pc' = IF cfg.RetryDelay > 0 THEN "delay" ELSE "attempt"
                 /\ lastErr' = onceErr]_vars
    /\ [][(pc = "delay" /\ pc' # "delay" /\ ctxErr = "nil")
              => pc' = "attempt" /\ attempt' = attempt + 1]_vars
    /\ []((/\ pc = "done"
            /\ ~fastPath(cfg)
            /\ results # <<>>
            /\ SucceededAttempt(LastAttempt)
            /\ \E i \in 1..(Len(results) - 1) : HardFailure(results[i][1], results[i][2]))
              => /\ retRes = LastAttempt[1]
                 /\ retErr = Nil
                 /\ attempts = Len(results))

\* Witness of C33: a timeout, then a system error, then exit status 0 with
\* MaxRetries = 2 and no cancellation; Execute returned the third result.
C33_Witness ==
    /\ pc = "done"
    /\ ctxErr = "nil"
    /\ cfg.MaxRetries = 2
    /\ Len(results) = 3
    /\ results[1][2] # Nil /\ results[1][2].type = "TimeoutError"
    /\ results[2][2] # Nil /\ results[2][2].type = "SystemError"
    /\ SucceededAttempt(results[3])
    /\ retRes = results[3][1]
    /\ retErr = Nil

\* C34: the LastError of a RetryExhaustedError describes the final attempt:
\* it is that attempt's error when it returned one, and otherwise the error
\* constructed from that attempt's non-zero exit code, whatever the earlier
\* attempts returned; Unwrap returns the same LastError.
C34_LastErrorIsFinalAttempt ==
    (pc = "done" /\ retErr # Nil /\ retErr.type = "RetryExhaustedError")
        => /\ results # <<>>
           /\ Len(results) = attempts
           /\ IF LastAttempt[2] # Nil
              THEN retErr.LastError = LastAttempt[2]
              ELSE /\ LastAttempt[1].ExitCode # 0
                   /\ retErr.LastError = ExitCodeError(LastAttempt[1].ExitCode)
           /\ Unwrap(retErr) = retErr.LastError

\* Witness of C34: a timeout, a system error and a non-zero exit were
\* exhausted; the LastError names the exit code of the third attempt.
C34_Witness ==
    /\ pc = "done"
    /\ retErr # Nil /\ retErr.type = "RetryExhaustedError"
    /\ Len(results) = 3
    /\ results[1][2] # Nil /\ results[1][2].type = "TimeoutError"
    /\ results[2][2] # Nil /\ results[2][2].type = "SystemError"
    /\ results[3][2] = Nil /\ results[3][1].ExitCode = 1
    /\ retErr.LastError = ExitCodeError(1)

\* The goroutine of index i has executed `results[index] = ...`.
HasStored(i) ==
    taskPc[i] \in {"release", "wgDone", "finished"}

\* C35: every entry of the results slice is written exactly once, by the
\* goroutine created for its index, and before ExecuteConcurrent returns: a
\* step that changes the slice after its allocation changes one entry, is
\* the store of that entry's goroutine, and happens while the call waits; a
\* goroutine that has stored never stores again; at the return every
\* goroutine has stored and is finished.
C35_EachEntryWrittenOnce ==
    /\ [][(mainPc # "call" /\ concResults' # concResults)
              => /\ mainPc \in {"loop", "wait"}
                 /\ \E i \in Indices :
                       /\ taskPc[i] = "store"
                       /\ ~HasStored(i) /\ HasStored(i)'
                       /\ concResults' = [concResults EXCEPT ![i] = concResults'[i]]
                       /\ concResults[i] = ZeroConcurrentResult
                       /\ concResults'[i] # ZeroConcurrentResult
                       /\ \A j \in Indices \ {i} : taskPc'[j] = taskPc[j]]_vars
    /\ [][\A i \in Indices :
              /\ HasStored(i) => HasStored(i)' /\ concResults'[i] = concResults[i]
              /\ (~HasStored(i) /\ HasStored(i)') => concResults'[i] # concResults[i]]_vars
    /\ []((mainPc = "done" /\ Indices # {})
              => /\ \A i \in Indices : taskPc[i] = "finished"
                 /\ concRet.results = concResults
                 /\ \A i \in Indices : concResults[i] # ZeroConcurrentResult)

\* Witness of C35: a call with three configs and one slot has returned after
\* each of the three goroutines stored its own entry.
C35_Witness ==
    /\ mainPc = "done"
    /\ Indices = 0..2
    /\ semCapacity(maxConcurrency) = 1
    /\ \A i \in Indices : HasStored(i) /\ concResults[i].Index = i
    /\ concResults[1].Error # Nil
    /\ concRet.results = concResults

\* C36: the truncation flag of a capped stream, once true, stays true for
\* the rest of the attempt; the captured bytes never exceed the cap; and
\* every Write to the capped writer returns the full length of the chunk
\* and a nil error, also when the chunk was dropped in part or as a whole.
C36_CapNeverFailsWrite ==
    /\ [][\A s \in DOMAIN maxBytes :
              (s \in DOMAIN lw' /\ truncFlag(lw[s])) => truncFlag(lw'[s])]_vars
    /\ [](\A s \in DOMAIN maxBytes :
              maxBytes[s] > 0 => Len(buffers[s]) <= maxBytes[s])
    /\ []((writeRet # Nil /\ maxBytes[writeRet.stream] > 0)
              => /\ writeRet.n = writeRet.len
                 /\ writeRet.err = Nil)

\* Witness of C36: stdout is capped at 1 byte and truncated; the latest
\* write, of 3 bytes that were all dropped, returned 3 and a nil error.
C36_Witness ==
    /\ capturePc = "running"
    /\ maxBytes["stdout"] = 1
    /\ produced["stdout"] = 5
    /\ Len(buffers["stdout"]) = 1
    /\ truncFlag(lw["stdout"])
    /\ writeRet = [type |-> "writeRet", stream |-> "stdout", len |-> 3,
                   n |-> 3, err |-> Nil]

\* The bytes of stream s that the buffer of the running attempt keeps when
\* the process wrote T bytes.
KeptOf(s, T) ==
    IF maxBytes[s] > 0 THEN Min(T, maxBytes[s]) ELSE T

RECURSIVE loggedOutput(_, _, _)
\* The bytes that the processes of the attempts i.. of the log wrote to
\* stream s, one attempt after the other.
loggedOutput(log, s, i) ==
    IF i > Len(log) THEN <<>>
    ELSE Chunk(s, 0, log[i].produced[s]) \o loggedOutput(log, s, i + 1)

\* The caller's writer of stream s accepted every write of the session.
AllAccepted(s) ==
    /\ copyErr[s] = Nil
    /\ \A i \in DOMAIN producedLog : producedLog[i].copyErr[s] = Nil

\* C39: the ExecutionResult that an attempt of a session returns holds, for
\* each stream, the bytes that the process of that attempt wrote, up to the
\* cap, and the truncation flag of that attempt alone, whatever the earlier
\* attempts wrote; a caller's writer that accepted every write holds the
\* bytes of all the attempts of the session, one attempt after the other.
C39_BuffersPerAttemptSinkPerSession ==
    \A s \in DOMAIN sinkSet :
        /\ capturePc = "returned"
               => /\ CapturedText(s) = Chunk(s, 0, KeptOf(s, produced[s]))
                  /\ CapturedFlag(s)
                         <=> (maxBytes[s] > 0 /\ produced[s] > maxBytes[s])
        /\ (sinkSet[s] /\ AllAccepted(s))
               => sinks[s] = loggedOutput(producedLog, s, 1)
                                 \o Chunk(s, 0, produced[s])

\* Witness of C39: the first attempt wrote 2 bytes to stdout, capped at 1,
\* and was truncated; the second wrote 1 byte and returned: the result holds
\* that one byte and no truncation flag, the caller's writer all 3 bytes.
C39_Witness ==
    /\ capturePc = "returned"
    /\ captureAttempt = 2
    /\ sinkSet["stdout"]
    /\ maxBytes["stdout"] = 1
    /\ producedLog[1].produced["stdout"] = 2
    /\ produced["stdout"] = 1
    /\ AllAccepted("stdout")
    /\ captured.Output = Chunk("stdout", 0, 1)
    /\ ~captured.StdoutTruncated
    /\ Len(sinks["stdout"]) = 3

\* C38: when every call of the wrapped executor's Execute returns,
\* ExecuteConcurrent returns for every number of configs and every
\* maxConcurrency: each goroutine that waits at the semaphore gets a slot,
\* at the return every slot has been given back and every goroutine is
\* finished, also those whose Execute returned an error, and for no configs
\* it returns an empty results slice and a nil error without starting a
\* goroutine.
C38_ExecuteConcurrentTerminates ==
    /\ (mainPc = "call") ~> (mainPc = "done")
    /\ \A i \in 0..(MaxConfigs - 1) :
           (i \in Indices /\ taskPc[i] = "acquire")
               ~> (i \in Indices /\ taskPc[i] = "execute")
    /\ [](mainPc = "done"
              => /\ semaphore = 0
                 /\ wg = 0
                 /\ \A i \in Indices : taskPc[i] = "finished"
                 /\ concRet.err = Nil
                 /\ Indices = {} => /\ concRet.results = <<>>
                                    /\ loopIndex = 0)

\* Witness of C38: two configs under maxConcurrency -1, hence one slot:
\* ExecuteConcurrent returned although the Execute of the first returned an
\* error and the other had to wait for the slot.
C38_Witness ==
    /\ mainPc = "done"
    /\ DOMAIN configs = 0..1
    /\ maxConcurrency = -1
    /\ taskOut[0][2] # Nil
    /\ taskOut[1][2] = Nil
    /\ semaphore = 0
    /\ \A i \in DOMAIN configs : taskPc[i] = "finished" /\ execCalls[i] = 1

\* C40: a SignalHandler can be started again after Start and Stop: the second
\* Start succeeds and returns a new context that is not cancelled, no signal
\* that arrives afterwards makes the program panic, and a SIGINT or SIGTERM
\* that arrives afterwards cancels that context.
C40_RestartedHandlerCancelsOnSignal ==
    /\ [][(SignalHandlerStart /\ ~running /\ signalsClosed)
              => /\ startRet' = "ctx"
                 /\ cancel' = Len(ctxs) + 1
                 /\ ctxs' = Append(ctxs, FALSE)]_vars
    /\ [](\A k \in 1..Len(sigLog) :
              sigLog[k].gen >= 2 => sigLog[k].outcome # "panic")
    /\ \A g \in 2..MaxStarts :
           TerminationSignalDelivered(g) ~> StartContextDone(g)

====
